---- MODULE Spec2Model ----
(***************************************************************************)
(* Hotel content-management site: the admin route handlers for rooms       *)
(* (hotel categories), price tiers and gallery items over a relational     *)
(* store and an external object storage, with the string functions the     *)
(* handlers compute (slug derivation, captioning, video-key extraction).   *)
(* Strings are sequences of one-character strings.                         *)
(***************************************************************************)
EXTENDS Integers, Sequences, FiniteSets, TLC

VARIABLES
    categories,  \* HotelCategory rows: set of records
    images,      \* GalleryImage rows: set of records
    prices,      \* Price rows: set of records
    nextId,      \* autoincrement counters of the three tables
    storage,     \* keys of the objects held by the external storage
    detached,    \* key lists of the deleteFiles calls issued and not awaited
    pc,          \* per request slot: position in its handler
    req,         \* per request slot: the request being served
    loc,         \* per request slot: the handler's local variables
    resp,        \* per request slot: the response
    fnIn,        \* argument of the library or client-side function under study
    fnOut,       \* its result, or its local state while it runs
    fnPc         \* position of that function's driver

vars == <<categories, images, prices, nextId, storage, detached,
          pc, req, loc, resp, fnIn, fnOut, fnPc>>

dbVars == <<categories, images, prices, nextId>>
fnVars == <<fnIn, fnOut, fnPc>>
procVars == <<pc, req, loc, resp>>

-----------------------------------------------------------------------------
(* Bounds *)

MaxTitleLen == 4
MaxCat == 2
MaxImages == 2
MaxImageId == 4
MaxTiers == 5
MaxPriceId == 8
MaxGallery == 2
MaxRetries == 2
MaxUploads == 2

-----------------------------------------------------------------------------
(* Strings *)

Min(S) == CHOOSE x \in S : \A y \in S : x <= y

SeqsUpTo(A, n) == UNION {[1..k -> A] : k \in 0..n}

UpperCase == <<"A", "B", "C", "D", "E", "F", "G", "H", "I", "J", "K", "L", "M", "N", "O", "P", "Q", "R", "S", "T", "U", "V", "W", "X", "Y", "Z">>
LowerCase == <<"a", "b", "c", "d", "e", "f", "g", "h", "i", "j", "k", "l", "m", "n", "o", "p", "q", "r", "s", "t", "u", "v", "w", "x", "y", "z">>
Digits == <<"0", "1", "2", "3", "4", "5", "6", "7", "8", "9">>

IndexIn(s, c) == Min({i \in 1..Len(s) : s[i] = c})

\* String.prototype.toLowerCase, character by character
LowerChar(c) ==
    IF \E i \in 1..Len(UpperCase) : UpperCase[i] = c
    THEN LowerCase[IndexIn(UpperCase, c)]
    ELSE c

toLowerCase(s) == [i \in 1..Len(s) |-> LowerChar(s[i])]

\* the class [a-z0-9]
IsSlugChar(c) ==
    \/ \E i \in 1..Len(LowerCase) : LowerCase[i] = c
    \/ \E i \in 1..Len(Digits) : Digits[i] = c

\* s.replace(/[^a-z0-9]+/g, '-'): every maximal run outside the class becomes one '-'
ReplaceRunsLoose(s) ==
    [i \in 1..Len(s) |-> IF IsSlugChar(s[i]) THEN s[i] ELSE "-"]

RECURSIVE ReplaceRuns(_)
ReplaceRuns(s) ==
    IF s = <<>> THEN <<>>
    ELSE IF IsSlugChar(Head(s)) THEN <<Head(s)>> \o ReplaceRuns(Tail(s))
    ELSE LET rest == Tail(s)
             stop == {i \in 1..Len(rest) : IsSlugChar(rest[i])}
         IN  IF stop = {} THEN <<"-">>
             ELSE <<"-">> \o ReplaceRuns(SubSeq(rest, Min(stop), Len(rest)))

\* s.replace(/(^-|-$)/g, ''): one '-' at the start and one at the end are removed
TrimDashes(s) ==
    LET a == IF s # <<>> /\ s[1] = "-" THEN Tail(s) ELSE s
    IN  IF a # <<>> /\ a[Len(a)] = "-" THEN SubSeq(a, 1, Len(a) - 1) ELSE a

\* title.toLowerCase().replace(/[^a-z0-9]+/g, '-').replace(/(^-|-$)/g, '')
Slug(title) == TrimDashes(ReplaceRuns(toLowerCase(title)))

\* decimal rendering of a number inside a template literal
RECURSIVE DecStr(_)
DecStr(n) ==
    IF n < 10 THEN <<Digits[n + 1]>>
    ELSE DecStr(n \div 10) \o <<Digits[(n % 10) + 1]>>

ImageWord == <<" ", "-", " ", "I", "m", "a", "g", "e", " ">>

\* `${title} - Image ${index + 1}`, index 0-based
Caption(title, index) == title \o ImageWord \o DecStr(index + 1)

-----------------------------------------------------------------------------
(* Video-key extraction: the regular expressions of the handlers *)

NoKey == <<>>

Lit_f == <<"/", "f", "/">>
Lit_a == <<"/", "a", "/">>
Lit_uploadthing == <<"u", "p", "l", "o", "a", "d", "t", "h", "i", "n", "g">>
Lit_utfs == <<"u", "t", "f", "s", ".", "i", "o", "/">>

KeyStop == {"/", "?", "#"}
KeyStopNoHash == {"/", "?"}

HasAt(s, i, lit) ==
    /\ i >= 1
    /\ i + Len(lit) - 1 <= Len(s)
    /\ SubSeq(s, i, i + Len(lit) - 1) = lit

\* last index of the maximal run of characters outside stop that starts at i
\* (i - 1 when the run is empty)
RunEnd(s, i, stop) ==
    LET bad == {k \in i..Len(s) : s[k] \in stop}
    IN  IF bad = {} THEN Len(s) ELSE Min(bad) - 1

\* /\/f\/([^/?#]+)/ with the class given as its excluded characters
MatchF(s, stop) ==
    LET ok == {i \in 1..Len(s) : HasAt(s, i, Lit_f) /\ RunEnd(s, i + 3, stop) >= i + 3}
    IN  IF ok = {} THEN NoKey
        ELSE LET i == Min(ok) IN SubSeq(s, i + 3, RunEnd(s, i + 3, stop))

\* /\/a\/[^/]+\/([^/?#]+)/
MatchA(s) ==
    LET segEnd(i) == RunEnd(s, i + 3, {"/"})
        ok == {i \in 1..Len(s) :
                 /\ HasAt(s, i, Lit_a)
                 /\ segEnd(i) >= i + 3
                 /\ segEnd(i) < Len(s)
                 /\ RunEnd(s, segEnd(i) + 2, KeyStop) >= segEnd(i) + 2}
    IN  IF ok = {} THEN NoKey
        ELSE LET i == Min(ok)
             IN  SubSeq(s, segEnd(i) + 2, RunEnd(s, segEnd(i) + 2, KeyStop))

\* /uploadthing.*?\/([^/?#]+)$/
MatchUploadthing(s) ==
    LET starts == {i \in 1..Len(s) : HasAt(s, i, Lit_uploadthing)}
        slashes(i) == {j \in (i + Len(Lit_uploadthing))..(Len(s) - 1) :
                         /\ s[j] = "/"
                         /\ RunEnd(s, j + 1, KeyStop) = Len(s)}
        ok == {i \in starts : slashes(i) # {}}
    IN  IF ok = {} THEN NoKey
        ELSE LET j == Min(slashes(Min(ok))) IN SubSeq(s, j + 1, Len(s))

\* /utfs\.io\/[af]\/(?:[^/]+\/)?([^/?#]+)/ (letters: the characters of the class [af])
MatchUtfs(s, letters) ==
    LET p(i) == i + Len(Lit_utfs) + 2
        head(i) == /\ HasAt(s, i, Lit_utfs)
                   /\ p(i) - 1 <= Len(s)
                   /\ s[p(i) - 2] \in letters
                   /\ s[p(i) - 1] = "/"
        segEnd(i) == RunEnd(s, p(i), {"/"})
        withSeg(i) == /\ segEnd(i) >= p(i)
                      /\ segEnd(i) < Len(s)
                      /\ RunEnd(s, segEnd(i) + 2, KeyStop) >= segEnd(i) + 2
        bare(i) == RunEnd(s, p(i), KeyStop) >= p(i)
        ok == {i \in 1..Len(s) : head(i) /\ (withSeg(i) \/ bare(i))}
    IN  IF ok = {} THEN NoKey
        ELSE LET i == Min(ok)
             IN  IF withSeg(i)
                 THEN SubSeq(s, segEnd(i) + 2, RunEnd(s, segEnd(i) + 2, KeyStop))
                 ELSE SubSeq(s, p(i), RunEnd(s, p(i), KeyStop))

\* /utfs\.io\/f\/([^/?#]+)/
MatchUtfsF(s) ==
    LET p(i) == i + Len(Lit_utfs) + 2
        ok == {i \in 1..Len(s) :
                 /\ HasAt(s, i, Lit_utfs \o <<"f", "/">>)
                 /\ RunEnd(s, p(i), KeyStop) >= p(i)}
    IN  IF ok = {} THEN NoKey
        ELSE LET i == Min(ok) IN SubSeq(s, p(i), RunEnd(s, p(i), KeyStop))

\* for (const pattern of patterns) { match ... break }: the first pattern that matches
FirstMatch(results) ==
    LET hit == {i \in 1..Len(results) : results[i] # NoKey}
    IN  IF hit = {} THEN NoKey ELSE results[Min(hit)]

\* the patterns of the rooms PUT handler, tried in order
ExtractVideoKeyUpdate(url) ==
    FirstMatch(<<MatchF(url, KeyStop), MatchA(url), MatchUploadthing(url),
                 MatchUtfs(url, {"a", "f"})>>)

\* the patterns of the rooms DELETE handler, tried in order
ExtractVideoKeyDelete(url) ==
    FirstMatch(<<MatchF(url, KeyStop), MatchUploadthing(url), MatchUtfsF(url)>>)

\* videoUrl.match(/\/f\/([^/?]+)/) of the categories/[id] DELETE handler
ExtractVideoKeyCategoryDelete(url) == MatchF(url, KeyStopNoHash)

\* videoUrl.trim() === '' (space is the only white space of the modelled alphabet)
IsBlank(s) == \A i \in 1..Len(s) : s[i] = " "

-----------------------------------------------------------------------------
(* Values *)

\* null of a nullable string column (an empty string is as falsy as null in
\* every test the handlers make); null of a nullable id is 0
NullStr == <<>>
NullId == 0

Title_Deluxe == <<"D", "e", "l", "u", "x", "e", " ", "R", "o", "o", "m">>
Title_Suite == <<"S", "u", "i", "t", "e">>

Url_f == <<"h", "t", "t", "p", "s", ":", "/", "/", "h", "o", "s", "t", "/", "f", "/", "A", "B", "C", "1", "2", "3">>
Url_a == <<"h", "t", "t", "p", "s", ":", "/", "/", "h", "o", "s", "t", "/", "a", "/", "a", "p", "p", "1", "/", "A", "B", "C", "1", "2", "3">>
Url_x == <<"h", "t", "t", "p", "s", ":", "/", "/", "h", "o", "s", "t", "/", "x", "/", "y", "/", "A", "B", "C", "1", "2", "3", "?", "q", "=", "1">>
Url_ut == <<"h", "t", "t", "p", "s", ":", "/", "/", "u", "p", "l", "o", "a", "d", "t", "h", "i", "n", "g", ".", "c", "o", "m", "/", "A", "B", "C", "1", "2", "3">>
Key_ABC123 == <<"A", "B", "C", "1", "2", "3">>

Key_k1 == <<"k", "1">>
Key_k2 == <<"k", "2">>
Img_1 == [url |-> <<"u", "1">>, publicId |-> Key_k1]
Img_2 == [url |-> <<"u", "2">>, publicId |-> Key_k2]

\* the objects uploaded to the external storage before any request refers to them
UploadedKeys == {Key_k1, Key_k2, Key_ABC123}

Procs == {1, 2}

NoRow == [id |-> NullId]

\* the gallery fields of a request: the content type, the file of a multipart
\* body, the url and publicId of an uploaded file, the category label, the caption
GalNone ==
    [kind |-> "none", file |-> "none", url |-> NullStr, publicId |-> NullStr,
     category |-> NullStr, caption |-> NullStr]

ReqNone ==
    [op |-> "none", auth |-> FALSE, id |-> NullId, title |-> NullStr, roomCount |-> 0,
     images |-> <<>>, videos |-> <<>>, data |-> <<>>, hasPrices |-> FALSE,
     prices |-> <<>>, gal |-> GalNone]

LocNone ==
    [existing |-> NoRow, existingImages |-> <<>>, fileKeysToDelete |-> <<>>,
     deleteOutcome |-> "none", room |-> NoRow, validatedCategoryData |-> <<>>,
     txCat |-> NoRow, txDel |-> {}, txSnap |-> {}, txIns |-> {},
     uploadOutcome |-> "none", uploadResult |-> [secure_url |-> NullStr, public_id |-> NullStr],
     pre |-> [categories |-> {}, images |-> {}, prices |-> {}, storage |-> {}]]

RespNone == [status |-> 0, body |-> "none"]

\* the store as a request finds it (history for before/after statements)
Snapshot ==
    [categories |-> categories, images |-> images, prices |-> prices,
     storage |-> storage]


-----------------------------------------------------------------------------
(* The relational store *)

\* rows of a table in ascending id order
RECURSIVE ById(_)
ById(rows) ==
    IF rows = {} THEN <<>>
    ELSE LET r == CHOOSE x \in rows : \A y \in rows : x.id <= y.id
         IN  <<r>> \o ById(rows \ {r})

ImagesOf(catId) == {i \in images : i.categoryId = catId}
PricesOf(catId) == {q \in prices : q.categoryId = catId}

\* prisma.hotelCategory.findUnique({ where: { id } })
FindCategory(id) ==
    IF \E c \in categories : c.id = id
    THEN CHOOSE c \in categories : c.id = id
    ELSE NoRow

\* unique constraint on HotelCategory.slug
SlugTaken(slug, exceptId) == \E c \in categories : c.slug = slug /\ c.id # exceptId

\* onDelete: Cascade from HotelCategory to its GalleryImage and Price rows
CascadeImages(catId) == images \ ImagesOf(catId)
CascadePrices(catId) == prices \ PricesOf(catId)

-----------------------------------------------------------------------------
(* Rooms route: POST, PUT, DELETE of a room (hotel category) *)

\* videos && videos.length > 0 ? videos[0].url : null
NewVideoUrl(videos) == IF Len(videos) > 0 THEN videos[1].url ELSE NullStr

\* images?.map((imageData, index) => ({ category: 'Rooms', url, publicId, caption }))
ImageRowsSameCaption(title, imgs, catId, firstId) ==
    {[id |-> firstId + i - 1, category |-> "Rooms", url |-> imgs[i].url,
      publicId |-> imgs[i].publicId, caption |-> Caption(title, 0),
      categoryId |-> catId] : i \in 1..Len(imgs)}
ImageRows(title, imgs, catId, firstId) ==
    {[id |-> firstId + i - 1, category |-> "Rooms", url |-> imgs[i].url,
      publicId |-> imgs[i].publicId, caption |-> Caption(title, i - 1),
      categoryId |-> catId] : i \in 1..Len(imgs)}

Reply(p, status, body) ==
    /\ resp' = [resp EXCEPT ![p] = [status |-> status, body |-> body]]
    /\ pc' = [pc EXCEPT ![p] = "done"]

\* a request is taken up by a free slot; when requests are served one at a
\* time (In.serial), only while no other request is in progress
Accepts(p, In) ==
    /\ p \in In.procs
    /\ pc[p] = "idle"
    /\ In.serial => \A q \in Procs : pc[q] = "idle"

\* POST: prisma.hotelCategory.create with the nested image rows
RoomsPOST(p, In) ==
    /\ Accepts(p, In)
    /\ nextId.cat <= MaxCat
    /\ \E auth \in In.auths, title \in In.titles, roomCount \in In.roomCounts,
          imgs \in In.imageLists, vids \in In.videoLists :
         /\ nextId.img + Len(imgs) - 1 <= MaxImageId
         /\ req' = [req EXCEPT ![p] =
                       [ReqNone EXCEPT !.op = "roomsPOST", !.auth = auth, !.title = title,
                                       !.roomCount = roomCount, !.images = imgs,
                                       !.videos = vids]]
         /\ IF SlugTaken(Slug(title), NullId)
            THEN /\ nextId' = [nextId EXCEPT !.cat = @ + 1]
                 /\ loc' = [loc EXCEPT ![p].pre = Snapshot]
                 /\ UNCHANGED <<categories, images>>
                 /\ Reply(p, 500, "error")
            ELSE LET room == [id |-> nextId.cat, slug |-> Slug(title), title |-> title,
                              roomCount |-> roomCount, videoUrl |-> NewVideoUrl(vids)]
                 IN  /\ categories' = categories \cup {room}
                     /\ images' = images \cup
                                    ImageRows(title, imgs, nextId.cat, nextId.img)
                     /\ nextId' = [nextId EXCEPT !.cat = @ + 1, !.img = @ + Len(imgs)]
                     /\ loc' = [loc EXCEPT ![p].pre = Snapshot, ![p].room = room]
                     /\ Reply(p, 201, "room")
    /\ UNCHANGED <<prices, storage, detached, fnVars>>

\* the keys of the old images that are not in the new images array
OldImageKeysAll(existingImages, imgs) ==
    LET pick(r) == r.publicId # NullStr
        kept == SelectSeq(existingImages, pick)
    IN  [i \in 1..Len(kept) |-> kept[i].publicId]
OldImageKeys(existingImages, imgs) ==
    LET newImageKeys == {imgs[i].publicId : i \in 1..Len(imgs)}
        pick(r) == r.publicId # NullStr /\ r.publicId \notin newImageKeys
        kept == SelectSeq(existingImages, pick)
    IN  [i \in 1..Len(kept) |-> kept[i].publicId]

\* the key of the old video when it is being replaced or removed
OldVideoKeysAlways(existing, newVideoUrl) ==
    IF existing.videoUrl # NullStr /\ ~IsBlank(existing.videoUrl)
       /\ ExtractVideoKeyUpdate(existing.videoUrl) # NoKey
    THEN <<ExtractVideoKeyUpdate(existing.videoUrl)>>
    ELSE <<>>
OldVideoKeys(existing, newVideoUrl) ==
    IF existing.videoUrl # NullStr /\ ~IsBlank(existing.videoUrl)
       /\ existing.videoUrl # newVideoUrl
       /\ ExtractVideoKeyUpdate(existing.videoUrl) # NoKey
    THEN <<ExtractVideoKeyUpdate(existing.videoUrl)>>
    ELSE <<>>

\* PUT, up to the collected fileKeysToDelete: the id check, findUnique with the
\* images, the keys of the replaced files
RoomsPutFind(p, In) ==
    /\ Accepts(p, In)
    /\ \E auth \in In.auths, id \in In.ids, title \in In.titles,
          roomCount \in In.roomCounts, imgs \in In.imageLists, vids \in In.videoLists :
         /\ nextId.img + Len(imgs) - 1 <= MaxImageId
         /\ req' = [req EXCEPT ![p] =
                       [ReqNone EXCEPT !.op = "roomsPUT", !.auth = auth, !.id = id,
                                       !.title = title, !.roomCount = roomCount,
                                       !.images = imgs, !.videos = vids]]
         /\ IF id = NullId
            THEN loc' = [loc EXCEPT ![p].pre = Snapshot] /\ Reply(p, 400, "error")
            ELSE IF FindCategory(id) = NoRow
            THEN loc' = [loc EXCEPT ![p].pre = Snapshot] /\ Reply(p, 404, "error")
            ELSE LET existing == FindCategory(id)
                     existingImages == ById(ImagesOf(id))
                     keys == OldImageKeys(existingImages, imgs)
                               \o OldVideoKeys(existing, NewVideoUrl(vids))
                 IN  /\ loc' = [loc EXCEPT ![p].pre = Snapshot, ![p].existing = existing,
                                           ![p].existingImages = existingImages,
                                           ![p].fileKeysToDelete = keys]
                     /\ pc' = [pc EXCEPT ![p] =
                                  IF Len(keys) > 0 THEN "putDeleteFiles"
                                  ELSE "putDeleteImages"]
                     /\ resp' = resp
    /\ UNCHANGED <<dbVars, storage, detached, fnVars>>

Range(s) == {s[i] : i \in 1..Len(s)}

\* utapi.deleteFiles(keys): the objects are removed, or the service reports
\* failure, or the call throws
StorageAfter(keys, outcome) ==
    IF outcome = "ok" THEN storage \ Range(keys) ELSE storage

StorageOutcomes == {"ok", "failed", "throws"}

\* PUT, STEP 1: await utapi.deleteFiles(fileKeysToDelete) inside try/catch
RoomsPutDeleteFilesUncaught(p) ==
    /\ pc[p] = "putDeleteFiles"
    /\ \E outcome \in StorageOutcomes :
         /\ storage' = StorageAfter(loc[p].fileKeysToDelete, outcome)
         /\ loc' = [loc EXCEPT ![p].deleteOutcome = outcome]
         /\ IF outcome = "throws"
            THEN Reply(p, 500, "error")
            ELSE pc' = [pc EXCEPT ![p] = "putDeleteImages"] /\ resp' = resp
    /\ UNCHANGED <<dbVars, detached, req, fnVars>>
RoomsPutDeleteFiles(p) ==
    /\ pc[p] = "putDeleteFiles"
    /\ \E outcome \in StorageOutcomes :
         /\ storage' = StorageAfter(loc[p].fileKeysToDelete, outcome)
         /\ loc' = [loc EXCEPT ![p].deleteOutcome = outcome]
    /\ pc' = [pc EXCEPT ![p] = "putDeleteImages"]
    /\ UNCHANGED <<dbVars, detached, req, resp, fnVars>>

\* PUT, STEP 2: prisma.galleryImage.deleteMany({ where: { categoryId: id } })
RoomsPutDeleteImagesSkipped(p) ==
    /\ pc[p] = "putDeleteImages"
    /\ pc' = [pc EXCEPT ![p] = "putUpdate"]
    /\ UNCHANGED <<dbVars, storage, detached, req, loc, resp, fnVars>>
RoomsPutDeleteImagesEarly(p) ==
    /\ pc[p] \in {"putDeleteFiles", "putDeleteImages"}
    /\ images' = images \ ImagesOf(req[p].id)
    /\ pc' = [pc EXCEPT ![p] = "putUpdate"]
    /\ UNCHANGED <<categories, prices, nextId, storage, detached, req, loc, resp, fnVars>>
RoomsPutDeleteImagesAll(p) ==
    /\ pc[p] = "putDeleteImages"
    /\ images' = {}
    /\ pc' = [pc EXCEPT ![p] = "putUpdate"]
    /\ UNCHANGED <<categories, prices, nextId, storage, detached, req, loc, resp, fnVars>>
RoomsPutDeleteImages(p) ==
    /\ pc[p] = "putDeleteImages"
    /\ images' = images \ ImagesOf(req[p].id)
    /\ pc' = [pc EXCEPT ![p] = "putUpdate"]
    /\ UNCHANGED <<categories, prices, nextId, storage, detached, req, loc, resp, fnVars>>

\* PUT: prisma.hotelCategory.update with the nested image rows
RoomsPutUpdate(p) ==
    /\ pc[p] = "putUpdate"
    /\ LET r == req[p]
           old == FindCategory(r.id)
       IN  IF old = NoRow \/ SlugTaken(Slug(r.title), r.id)
           THEN /\ UNCHANGED <<categories, images, nextId, loc>>
                /\ Reply(p, 500, "error")
           ELSE LET room == [old EXCEPT !.slug = Slug(r.title), !.title = r.title,
                                        !.roomCount = r.roomCount,
                                        !.videoUrl = NewVideoUrl(r.videos)]
                IN  /\ categories' = (categories \ {old}) \cup {room}
                    /\ images' = images \cup ImageRows(r.title, r.images, r.id, nextId.img)
                    /\ nextId' = [nextId EXCEPT !.img = @ + Len(r.images)]
                    /\ loc' = [loc EXCEPT ![p].room = room]
                    /\ Reply(p, 200, "room")
    /\ UNCHANGED <<prices, storage, detached, req, fnVars>>

\* the keys of every image of the room and of its video
RoomFileKeys(existing, existingImages) ==
    LET pick(r) == r.publicId # NullStr
        kept == SelectSeq(existingImages, pick)
        videoKey == IF existing.videoUrl # NullStr /\ ~IsBlank(existing.videoUrl)
                    THEN ExtractVideoKeyDelete(existing.videoUrl) ELSE NoKey
    IN  [i \in 1..Len(kept) |-> kept[i].publicId]
          \o (IF videoKey # NoKey THEN <<videoKey>> ELSE <<>>)

\* DELETE, up to the collected fileKeysToDelete
RoomsDeleteFind(p, In) ==
    /\ Accepts(p, In)
    /\ \E auth \in In.auths, id \in In.ids :
         /\ req' = [req EXCEPT ![p] =
                       [ReqNone EXCEPT !.op = "roomsDELETE", !.auth = auth, !.id = id]]
         /\ IF id = NullId
            THEN loc' = [loc EXCEPT ![p].pre = Snapshot] /\ Reply(p, 400, "error")
            ELSE IF FindCategory(id) = NoRow
            THEN loc' = [loc EXCEPT ![p].pre = Snapshot] /\ Reply(p, 404, "error")
            ELSE LET existing == FindCategory(id)
                     existingImages == ById(ImagesOf(id))
                     keys == RoomFileKeys(existing, existingImages)
                 IN  /\ loc' = [loc EXCEPT ![p].pre = Snapshot, ![p].existing = existing,
                                           ![p].existingImages = existingImages,
                                           ![p].fileKeysToDelete = keys]
                     /\ pc' = [pc EXCEPT ![p] =
                                  IF Len(keys) > 0 THEN "deleteFiles" ELSE "deleteRow"]
                     /\ resp' = resp
    /\ UNCHANGED <<dbVars, storage, detached, fnVars>>

\* DELETE, STEP 1: await utapi.deleteFiles(fileKeysToDelete) inside try/catch
RoomsDeleteFilesUncaught(p) ==
    /\ pc[p] = "deleteFiles"
    /\ \E outcome \in StorageOutcomes :
         /\ storage' = StorageAfter(loc[p].fileKeysToDelete, outcome)
         /\ loc' = [loc EXCEPT ![p].deleteOutcome = outcome]
         /\ IF outcome = "throws"
            THEN Reply(p, 500, "error")
            ELSE pc' = [pc EXCEPT ![p] = "deleteRow"] /\ resp' = resp
    /\ UNCHANGED <<dbVars, detached, req, fnVars>>
RoomsDeleteFiles(p) ==
    /\ pc[p] = "deleteFiles"
    /\ \E outcome \in StorageOutcomes :
         /\ storage' = StorageAfter(loc[p].fileKeysToDelete, outcome)
         /\ loc' = [loc EXCEPT ![p].deleteOutcome = outcome]
    /\ pc' = [pc EXCEPT ![p] = "deleteRow"]
    /\ UNCHANGED <<dbVars, detached, req, resp, fnVars>>

\* DELETE, STEP 2: prisma.hotelCategory.delete; the cascade removes images and prices
RoomsDeleteRow(p) ==
    /\ pc[p] = "deleteRow"
    /\ IF FindCategory(req[p].id) = NoRow
       THEN /\ UNCHANGED <<categories, images, prices>>
            /\ Reply(p, 500, "error")
       ELSE /\ categories' = categories \ {FindCategory(req[p].id)}
            /\ images' = CascadeImages(req[p].id)
            /\ prices' = CascadePrices(req[p].id)
            /\ Reply(p, 200, "message")
    /\ UNCHANGED <<nextId, storage, detached, req, loc, fnVars>>

\* the response has been sent: the slot is free again
Respond(p) ==
    /\ pc[p] = "done"
    /\ pc' = [pc EXCEPT ![p] = "idle"]
    /\ req' = [req EXCEPT ![p] = ReqNone]
    /\ loc' = [loc EXCEPT ![p] = LocNone]
    /\ resp' = [resp EXCEPT ![p] = RespNone]
    /\ UNCHANGED <<dbVars, storage, detached, fnVars>>

-----------------------------------------------------------------------------
(* Categories/[id] route: PUT (fields and price tiers), DELETE *)

\* requireAdmin(): throws an Unauthorized error without a valid admin session;
\* every catch block of the route answers it with 401
RequireAdminPasses(auth) == auth = TRUE

\* a field of the request body, tagged with its JSON type
StrField(s) == [kind |-> "string", v |-> s]
NumField(n) == [kind |-> "number", v |-> n]
NullField == [kind |-> "null"]
EmptyObject == [kind |-> "object", keys |-> 0]

KeepsFieldBlank(value) ==
    /\ value.kind # "null"
    /\ ~(value.kind = "object" /\ value.keys = 0)

\* Object.fromEntries(Object.entries(categoryData).filter(...)): null, empty
\* objects and blank strings are dropped
KeepsField(value) ==
    /\ value.kind # "null"
    /\ ~(value.kind = "object" /\ value.keys = 0)
    /\ ~(value.kind = "string" /\ IsBlank(value.v))

CleanCategoryData(data) ==
    [f \in {g \in DOMAIN data : KeepsField(data[g])} |-> data[f]]

\* categoryUpdateSchema.parse: the fields the schema knows, with their types
CategoryDataValid(data) ==
    /\ DOMAIN data \subseteq {"title", "roomCount"}
    /\ "title" \in DOMAIN data => data["title"].kind = "string"
    /\ "roomCount" \in DOMAIN data =>
          data["roomCount"].kind = "number" /\ data["roomCount"].v >= 0

\* tx.hotelCategory.update({ where: { id }, data: validatedCategoryData })
ApplyCategoryData(row, data) ==
    [id |-> row.id, slug |-> row.slug,
     title |-> IF "title" \in DOMAIN data THEN data["title"].v ELSE row.title,
     roomCount |-> IF "roomCount" \in DOMAIN data THEN data["roomCount"].v
                   ELSE row.roomCount,
     videoUrl |-> row.videoUrl]

\* prices.slice(0, 4)
PriceLimit == 4
LimitedPricesLast(tiers) ==
    IF Len(tiers) > PriceLimit
    THEN SubSeq(tiers, Len(tiers) - PriceLimit + 1, Len(tiers)) ELSE tiers
LimitedPrices(tiers) ==
    SubSeq(tiers, 1, IF Len(tiers) < PriceLimit THEN Len(tiers) ELSE PriceLimit)

\* limitedPrices.map(price => ({ categoryId, hourlyHours, rateCents, label: price.label || null }))
PriceRows(tiers, catId, firstId) ==
    {[id |-> firstId + i - 1, categoryId |-> catId, hourlyHours |-> tiers[i].hourlyHours,
      rateCents |-> tiers[i].rateCents, label |-> tiers[i].label] : i \in 1..Len(tiers)}

InTx(q) == pc[q] \in {"txUpdate", "txDeleteMany", "txDeleteBlocked", "txCreateMany",
                      "txCommit"}

\* PUT, up to the start of the transaction: requireAdmin, the body split into
\* prices and category data, the cleaning and the validation
CategoryPutValidate(p, In) ==
    /\ Accepts(p, In)
    /\ \E auth \in In.auths, id \in In.ids \ {NullId}, data \in In.dataSets,
          hasPrices \in In.hasPrices, tiers \in In.priceLists :
         /\ hasPrices = FALSE => tiers = <<>>
         /\ nextId.price + Len(LimitedPrices(tiers)) - 1 <= MaxPriceId
         /\ req' = [req EXCEPT ![p] =
                       [ReqNone EXCEPT !.op = "categoryPUT", !.auth = auth, !.id = id,
                                       !.data = data, !.hasPrices = hasPrices,
                                       !.prices = tiers]]
         /\ IF ~RequireAdminPasses(auth)
            THEN loc' = [loc EXCEPT ![p].pre = Snapshot] /\ Reply(p, 401, "error")
            ELSE IF CleanCategoryData(data) # <<>>
                    /\ ~CategoryDataValid(CleanCategoryData(data))
            THEN loc' = [loc EXCEPT ![p].pre = Snapshot] /\ Reply(p, 500, "error")
            ELSE /\ loc' = [loc EXCEPT ![p].pre = Snapshot,
                                       ![p].validatedCategoryData =
                                           CleanCategoryData(data)]
                 /\ pc' = [pc EXCEPT ![p] = "txUpdate"]
                 /\ resp' = resp
    /\ UNCHANGED <<dbVars, storage, detached, fnVars>>

\* the transaction fails: its writes are discarded and the catch block answers 500
Rollback(p) ==
    /\ loc' = [loc EXCEPT ![p].txDel = {}, ![p].txSnap = {}, ![p].txIns = {},
                          ![p].txCat = NoRow]
    /\ Reply(p, 500, "error")

\* in the transaction: the category update, when category data is provided
\* (waits for the row lock of another transaction's update of the same row)
CategoryPutTxUpdate(p) ==
    /\ pc[p] = "txUpdate"
    /\ \A q \in Procs \ {p} : InTx(q) => loc[q].txCat.id # req[p].id
    /\ IF loc[p].validatedCategoryData = <<>>
       THEN /\ pc' = [pc EXCEPT ![p] = "txDeleteMany"]
            /\ UNCHANGED <<loc, resp>>
       ELSE IF FindCategory(req[p].id) = NoRow
       THEN Rollback(p)
       ELSE /\ loc' = [loc EXCEPT ![p].txCat =
                          ApplyCategoryData(FindCategory(req[p].id),
                                            loc[p].validatedCategoryData)]
            /\ pc' = [pc EXCEPT ![p] = "txDeleteMany"]
            /\ resp' = resp
    /\ UNCHANGED <<dbVars, storage, detached, req, fnVars>>

\* in the transaction: tx.price.deleteMany({ where: { categoryId } }), when prices
\* are provided. The statement sees the rows committed when it starts; a row
\* another transaction has deleted and not yet committed makes it wait.
CategoryPutTxDeleteMany(p) ==
    /\ pc[p] = "txDeleteMany"
    /\ LET targets == {q.id : q \in PricesOf(req[p].id)}
           locked == \E q \in Procs \ {p} : InTx(q) /\ loc[q].txDel \cap targets # {}
       IN  IF ~req[p].hasPrices
           THEN /\ pc' = [pc EXCEPT ![p] = "txCommit"]
                /\ loc' = loc
           ELSE IF locked
           THEN /\ pc' = [pc EXCEPT ![p] = "txDeleteBlocked"]
                /\ loc' = [loc EXCEPT ![p].txSnap = targets]
           ELSE /\ pc' = [pc EXCEPT ![p] = "txCreateMany"]
                /\ loc' = [loc EXCEPT ![p].txDel = targets]
    /\ UNCHANGED <<dbVars, storage, detached, req, resp, fnVars>>

\* the waiting deleteMany goes on once the locks are released: it deletes the
\* rows of its snapshot that still exist
CategoryPutTxDeleteResume(p) ==
    /\ pc[p] = "txDeleteBlocked"
    /\ \A q \in Procs \ {p} : InTx(q) => loc[q].txDel \cap loc[p].txSnap = {}
    /\ loc' = [loc EXCEPT ![p].txDel = loc[p].txSnap \cap {q.id : q \in prices}]
    /\ pc' = [pc EXCEPT ![p] = "txCreateMany"]
    /\ UNCHANGED <<dbVars, storage, detached, req, resp, fnVars>>

\* in the transaction: tx.price.createMany of the first four submitted tiers
\* tx.price.createMany rejects a row that lacks a required column
TierComplete(t) == {"hourlyHours", "rateCents"} \subseteq DOMAIN t

CategoryPutTxCreateManyOutsideTx(p) ==
    /\ pc[p] = "txCreateMany"
    /\ LET limitedPrices == LimitedPrices(req[p].prices)
       IN  IF Len(limitedPrices) = 0
           THEN /\ pc' = [pc EXCEPT ![p] = "txCommit"]
                /\ UNCHANGED <<loc, resp, nextId, prices>>
           ELSE IF \E i \in 1..Len(limitedPrices) : ~TierComplete(limitedPrices[i])
           THEN /\ prices' = {q \in prices : q.id \notin loc[p].txDel}
                /\ nextId' = nextId
                /\ Rollback(p)
           ELSE /\ nextId' = [nextId EXCEPT !.price = @ + Len(limitedPrices)]
                /\ loc' = [loc EXCEPT ![p].txIns =
                              PriceRows(limitedPrices, req[p].id, nextId.price)]
                /\ pc' = [pc EXCEPT ![p] = "txCommit"]
                /\ UNCHANGED <<resp, prices>>
    /\ UNCHANGED <<categories, images, storage, detached, req, fnVars>>

CategoryPutTxCreateMany(p) ==
    /\ pc[p] = "txCreateMany"
    /\ LET limitedPrices == LimitedPrices(req[p].prices)
       IN  IF Len(limitedPrices) = 0
           THEN /\ pc' = [pc EXCEPT ![p] = "txCommit"]
                /\ UNCHANGED <<loc, resp, nextId>>
           ELSE IF \E i \in 1..Len(limitedPrices) : ~TierComplete(limitedPrices[i])
           THEN /\ nextId' = nextId
                /\ Rollback(p)
           ELSE IF FindCategory(req[p].id) = NoRow
           THEN /\ nextId' = [nextId EXCEPT !.price = @ + Len(limitedPrices)]
                /\ Rollback(p)
           ELSE /\ nextId' = [nextId EXCEPT !.price = @ + Len(limitedPrices)]
                /\ loc' = [loc EXCEPT ![p].txIns =
                              PriceRows(limitedPrices, req[p].id, nextId.price)]
                /\ pc' = [pc EXCEPT ![p] = "txCommit"]
                /\ resp' = resp
    /\ UNCHANGED <<categories, images, prices, storage, detached, req, fnVars>>

\* in the transaction: the final findUnique; then the commit and the response
CategoryPutTxCommit(p) ==
    /\ pc[p] = "txCommit"
    /\ prices' = (prices \ {q \in prices : q.id \in loc[p].txDel}) \cup loc[p].txIns
    /\ categories' =
          IF loc[p].txCat # NoRow /\ FindCategory(req[p].id) # NoRow
          THEN (categories \ {FindCategory(req[p].id)}) \cup {loc[p].txCat}
          ELSE categories
    /\ loc' = [loc EXCEPT ![p].txDel = {}, ![p].txSnap = {}, ![p].txCat = NoRow]
    /\ Reply(p, 200, "success")
    /\ UNCHANGED <<images, nextId, storage, detached, req, fnVars>>

\* the keys of every image of the category and of its video
CategoryFileKeys(existing, existingImages) ==
    LET pick(r) == r.publicId # NullStr
        kept == SelectSeq(existingImages, pick)
        videoKey == IF existing.videoUrl # NullStr
                    THEN ExtractVideoKeyCategoryDelete(existing.videoUrl) ELSE NoKey
    IN  [i \in 1..Len(kept) |-> kept[i].publicId]
          \o (IF videoKey # NoKey THEN <<videoKey>> ELSE <<>>)

\* DELETE, up to the collected fileKeysToDelete
CategoryDeleteFind(p, In) ==
    /\ Accepts(p, In)
    /\ \E auth \in In.auths, id \in In.ids \ {NullId} :
         /\ req' = [req EXCEPT ![p] =
                       [ReqNone EXCEPT !.op = "categoryDELETE", !.auth = auth, !.id = id]]
         /\ IF ~RequireAdminPasses(auth)
            THEN loc' = [loc EXCEPT ![p].pre = Snapshot] /\ Reply(p, 401, "error")
            ELSE IF FindCategory(id) = NoRow
            THEN loc' = [loc EXCEPT ![p].pre = Snapshot] /\ Reply(p, 404, "error")
            ELSE LET existing == FindCategory(id)
                     existingImages == ById(ImagesOf(id))
                 IN  /\ loc' = [loc EXCEPT ![p].pre = Snapshot, ![p].existing = existing,
                                           ![p].existingImages = existingImages,
                                           ![p].fileKeysToDelete =
                                               CategoryFileKeys(existing, existingImages)]
                     /\ pc' = [pc EXCEPT ![p] = "catDeleteRow"]
                     /\ resp' = resp
    /\ UNCHANGED <<dbVars, storage, detached, fnVars>>

\* DELETE: prisma.hotelCategory.delete (the cascade removes images and prices),
\* then utapi.deleteFiles(...).catch(...) is issued and not awaited
CategoryDeleteRowFilesFirst(p) ==
    /\ pc[p] = "catDeleteRow"
    /\ detached' = IF Len(loc[p].fileKeysToDelete) > 0
                   THEN detached \cup {loc[p].fileKeysToDelete}
                   ELSE detached
    /\ Reply(p, 200, "success")
    /\ UNCHANGED <<dbVars, storage, req, loc, fnVars>>
CategoryDeleteRow(p) ==
    /\ pc[p] = "catDeleteRow"
    /\ IF FindCategory(req[p].id) = NoRow
       THEN /\ UNCHANGED <<categories, images, prices, detached>>
            /\ Reply(p, 500, "error")
       ELSE /\ categories' = categories \ {FindCategory(req[p].id)}
            /\ images' = CascadeImages(req[p].id)
            /\ prices' = CascadePrices(req[p].id)
            /\ detached' = IF Len(loc[p].fileKeysToDelete) > 0
                           THEN detached \cup {loc[p].fileKeysToDelete}
                           ELSE detached
            /\ Reply(p, 200, "success")
    /\ UNCHANGED <<nextId, storage, req, loc, fnVars>>

\* a deleteFiles call that was not awaited completes; its rejection is caught
DetachedDeleteFiles ==
    /\ \E keys \in detached, outcome \in StorageOutcomes :
         /\ storage' = StorageAfter(keys, outcome)
         /\ detached' = detached \ {keys}
    /\ UNCHANGED <<dbVars, procVars, fnVars>>

-----------------------------------------------------------------------------
(* Categories/[id] route: GET *)

\* GET: requireAdmin, findUnique with prices and images
CategoryGET(p, In) ==
    /\ Accepts(p, In)
    /\ \E auth \in In.auths, id \in In.ids \ {NullId} :
         /\ req' = [req EXCEPT ![p] =
                       [ReqNone EXCEPT !.op = "categoryGET", !.auth = auth, !.id = id]]
         /\ loc' = [loc EXCEPT ![p].pre = Snapshot, ![p].existing = FindCategory(id)]
         /\ IF ~RequireAdminPasses(auth) THEN Reply(p, 401, "error")
            ELSE IF FindCategory(id) = NoRow THEN Reply(p, 404, "error")
            ELSE Reply(p, 200, "success")
    /\ UNCHANGED <<dbVars, storage, detached, fnVars>>

-----------------------------------------------------------------------------
(* Upload route: POST (called by the gallery POST), DELETE *)

\* the key and the url the storage gives to the n-th uploaded file
UploadKey(n) == <<"n">> \o DecStr(n)
UploadUrl(n) == Lit_utfs \o <<"f", "/">> \o UploadKey(n)

\* utapi.uploadFiles(file): the object is stored, or the response carries an
\* error, or the call throws
UploadOutcomes == {"ok", "error", "throws"}

\* POST /api/upload: the status of the response for a file and an outcome of
\* utapi.uploadFiles (the outcome matters only when the file passes the checks)
UploadPostStatusIgnoresError(file, outcome) ==
    IF file = "none" THEN 400
    ELSE IF file \notin {"image", "bigImage", "video"} THEN 400
    ELSE IF file = "bigImage" THEN 400
    ELSE IF outcome = "throws" THEN 500
    ELSE 200
UploadPostStatus(file, outcome) ==
    IF file = "none" THEN 400
    ELSE IF file \notin {"image", "bigImage", "video"} THEN 400
    ELSE IF file = "bigImage" THEN 400
    ELSE IF outcome = "ok" THEN 200
    ELSE 500

\* DELETE /api/upload?key=...: await utapi.deleteFiles(fileKey), not caught apart
\* from the handler's own catch block
UploadDELETE(p, In) ==
    /\ Accepts(p, In)
    /\ \E key \in In.keys, outcome \in StorageOutcomes :
         /\ req' = [req EXCEPT ![p] =
                       [ReqNone EXCEPT !.op = "uploadDELETE", !.auth = FALSE,
                                       !.gal = [GalNone EXCEPT !.publicId = key]]]
         /\ IF key = NullStr
            THEN /\ loc' = [loc EXCEPT ![p].pre = Snapshot]
                 /\ storage' = storage
                 /\ Reply(p, 400, "error")
            ELSE /\ loc' = [loc EXCEPT ![p].pre = Snapshot,
                                       ![p].fileKeysToDelete = <<key>>,
                                       ![p].deleteOutcome = outcome]
                 /\ storage' = StorageAfter(<<key>>, outcome)
                 /\ IF outcome = "throws" THEN Reply(p, 500, "error")
                    ELSE Reply(p, 200, "success")
    /\ UNCHANGED <<dbVars, detached, fnVars>>

-----------------------------------------------------------------------------
(* Gallery routes: POST (JSON and multipart), PUT, DELETE of a gallery item *)

\* prisma.galleryImage.findUnique({ where: { id } })
FindImage(id) ==
    IF \E i \in images : i.id = id
    THEN CHOOSE i \in images : i.id = id
    ELSE NoRow

\* galleryImageSchema.parse: the category label is required
GalleryDataValid(g) == g.category # NullStr

\* the row prisma.galleryImage.create writes
GalleryRow(id, g, url, publicId) ==
    [id |-> id, category |-> g.category, url |-> url, publicId |-> publicId,
     caption |-> g.caption, categoryId |-> NullId]

\* if (!url || !publicId)
MissingUrlAndKey(g) == g.url = NullStr /\ g.publicId = NullStr
MissingUrlOrKey(g) == g.url = NullStr \/ g.publicId = NullStr

\* POST with content type application/json: the file is already uploaded
GalleryPostJson(p, In) ==
    /\ Accepts(p, In)
    /\ nextId.img <= MaxGallery
    /\ \E auth \in In.auths, g \in In.galleryJson :
         /\ req' = [req EXCEPT ![p] =
                       [ReqNone EXCEPT !.op = "galleryPOST", !.auth = auth, !.gal = g]]
         /\ loc' = [loc EXCEPT ![p].pre = Snapshot]
         /\ IF ~RequireAdminPasses(auth)
            THEN UNCHANGED <<images, nextId>> /\ Reply(p, 401, "error")
            ELSE IF MissingUrlOrKey(g)
            THEN UNCHANGED <<images, nextId>> /\ Reply(p, 400, "error")
            ELSE IF ~GalleryDataValid(g)
            THEN UNCHANGED <<images, nextId>> /\ Reply(p, 500, "error")
            ELSE /\ images' = images \cup {GalleryRow(nextId.img, g, g.url, g.publicId)}
                 /\ nextId' = [nextId EXCEPT !.img = @ + 1]
                 /\ Reply(p, 200, "success")
    /\ UNCHANGED <<categories, prices, storage, detached, fnVars>>

\* POST with any other content type, up to the upload: requireAdmin,
\* request.formData() (throws unless the body is a form), the file checks, the
\* validation
GalleryPostForm(p, In) ==
    /\ Accepts(p, In)
    /\ nextId.img <= MaxGallery
    /\ \E auth \in In.auths, g \in In.galleryForm :
         /\ req' = [req EXCEPT ![p] =
                       [ReqNone EXCEPT !.op = "galleryPOST", !.auth = auth, !.gal = g]]
         /\ loc' = [loc EXCEPT ![p].pre = Snapshot]
         /\ IF ~RequireAdminPasses(auth) THEN Reply(p, 401, "error")
            ELSE IF g.kind # "form" THEN Reply(p, 500, "error")
            ELSE IF g.file = "none" THEN Reply(p, 400, "error")
            ELSE IF g.file \notin {"image", "bigImage"} THEN Reply(p, 400, "error")
            ELSE IF ~GalleryDataValid(g) THEN Reply(p, 500, "error")
            ELSE pc' = [pc EXCEPT ![p] = "galUpload"] /\ resp' = resp
    /\ UNCHANGED <<dbVars, storage, detached, fnVars>>

\* POST, multipart: fetch of POST /api/upload; a response that is not ok is thrown
GalleryPostUpload(p) ==
    /\ pc[p] = "galUpload"
    /\ \E outcome \in UploadOutcomes :
         LET status == UploadPostStatus(req[p].gal.file, outcome)
             stored == status = 200
         IN  /\ storage' = IF stored THEN storage \cup {UploadKey(nextId.img)} ELSE storage
             /\ loc' = [loc EXCEPT ![p].uploadOutcome =
                                       IF req[p].gal.file = "bigImage" THEN "rejected"
                                       ELSE outcome,
                                   ![p].uploadResult =
                                       IF stored
                                       THEN [secure_url |-> UploadUrl(nextId.img),
                                             public_id |-> UploadKey(nextId.img)]
                                       ELSE @]
             /\ IF stored
                THEN pc' = [pc EXCEPT ![p] = "galCreate"] /\ resp' = resp
                ELSE Reply(p, 500, "error")
    /\ UNCHANGED <<dbVars, detached, req, fnVars>>

\* POST, multipart: prisma.galleryImage.create with the uploaded file's url and key
GalleryPostCreate(p) ==
    /\ pc[p] = "galCreate"
    /\ images' = images \cup {GalleryRow(nextId.img, req[p].gal,
                                         loc[p].uploadResult.secure_url,
                                         loc[p].uploadResult.public_id)}
    /\ nextId' = [nextId EXCEPT !.img = @ + 1]
    /\ Reply(p, 200, "success")
    /\ UNCHANGED <<categories, prices, storage, detached, req, loc, fnVars>>

\* a replacement file is supplied: if (url && publicId)
HasReplacement(g) == g.url # NullStr /\ g.publicId # NullStr

\* PUT, up to the deletion of the old file: requireAdmin, findUnique, the
\* validation, the choice of STEP 1
GalleryPutFind(p, In) ==
    /\ Accepts(p, In)
    /\ \E auth \in In.auths, id \in In.imageIds, g \in In.galleryPut :
         /\ req' = [req EXCEPT ![p] =
                       [ReqNone EXCEPT !.op = "galleryPUT", !.auth = auth, !.id = id,
                                       !.gal = g]]
         /\ IF ~RequireAdminPasses(auth)
            THEN loc' = [loc EXCEPT ![p].pre = Snapshot] /\ Reply(p, 401, "error")
            ELSE IF FindImage(id) = NoRow
            THEN loc' = [loc EXCEPT ![p].pre = Snapshot] /\ Reply(p, 404, "error")
            ELSE IF ~GalleryDataValid(g)
            THEN /\ loc' = [loc EXCEPT ![p].pre = Snapshot, ![p].existing = FindImage(id)]
                 /\ Reply(p, 500, "error")
            ELSE LET existingImage == FindImage(id)
                     first == HasReplacement(g) /\ existingImage.publicId # NullStr
                 IN  /\ loc' = [loc EXCEPT ![p].pre = Snapshot,
                                           ![p].existing = existingImage,
                                           ![p].fileKeysToDelete =
                                               IF first THEN <<existingImage.publicId>>
                                               ELSE <<>>]
                     /\ pc' = [pc EXCEPT ![p] =
                                  IF first THEN "galPutDeleteFiles" ELSE "galPutUpdate"]
                     /\ resp' = resp
    /\ UNCHANGED <<dbVars, storage, detached, fnVars>>

\* PUT, STEP 1: await utapi.deleteFiles(existingImage.publicId) inside try/catch
GalleryPutDeleteFilesUncaught(p) ==
    /\ pc[p] = "galPutDeleteFiles"
    /\ \E outcome \in StorageOutcomes :
         /\ storage' = StorageAfter(loc[p].fileKeysToDelete, outcome)
         /\ loc' = [loc EXCEPT ![p].deleteOutcome = outcome]
         /\ IF outcome = "throws"
            THEN Reply(p, 500, "error")
            ELSE pc' = [pc EXCEPT ![p] = "galPutUpdate"] /\ resp' = resp
    /\ UNCHANGED <<dbVars, detached, req, fnVars>>
GalleryPutDeleteFiles(p) ==
    /\ pc[p] = "galPutDeleteFiles"
    /\ \E outcome \in StorageOutcomes :
         /\ storage' = StorageAfter(loc[p].fileKeysToDelete, outcome)
         /\ loc' = [loc EXCEPT ![p].deleteOutcome = outcome]
    /\ pc' = [pc EXCEPT ![p] = "galPutUpdate"]
    /\ UNCHANGED <<dbVars, detached, req, resp, fnVars>>

\* finalUpdateData applied to the row: the category, the caption when one is
\* given, the url and publicId when a replacement is supplied
UpdatedImage(row, g) ==
    [row EXCEPT !.category = g.category,
                !.caption = IF g.caption = NullStr THEN @ ELSE g.caption,
                !.url = IF HasReplacement(g) THEN g.url ELSE @,
                !.publicId = IF HasReplacement(g) THEN g.publicId ELSE @]

\* PUT: prisma.galleryImage.update
GalleryPutUpdate(p) ==
    /\ pc[p] = "galPutUpdate"
    /\ IF FindImage(req[p].id) = NoRow
       THEN images' = images /\ Reply(p, 500, "error")
       ELSE /\ images' = (images \ {FindImage(req[p].id)})
                           \cup {UpdatedImage(FindImage(req[p].id), req[p].gal)}
            /\ Reply(p, 200, "success")
    /\ UNCHANGED <<categories, prices, nextId, storage, detached, req, loc, fnVars>>

\* DELETE, up to the deletion of the file: requireAdmin, findUnique
GalleryDeleteFind(p, In) ==
    /\ Accepts(p, In)
    /\ \E auth \in In.auths, id \in In.imageIds :
         /\ req' = [req EXCEPT ![p] =
                       [ReqNone EXCEPT !.op = "galleryDELETE", !.auth = auth, !.id = id]]
         /\ IF ~RequireAdminPasses(auth)
            THEN loc' = [loc EXCEPT ![p].pre = Snapshot] /\ Reply(p, 401, "error")
            ELSE IF FindImage(id) = NoRow
            THEN loc' = [loc EXCEPT ![p].pre = Snapshot] /\ Reply(p, 404, "error")
            ELSE LET image == FindImage(id)
                 IN  /\ loc' = [loc EXCEPT ![p].pre = Snapshot, ![p].existing = image,
                                           ![p].fileKeysToDelete =
                                               IF image.publicId # NullStr
                                               THEN <<image.publicId>> ELSE <<>>]
                     /\ pc' = [pc EXCEPT ![p] =
                                  IF image.publicId # NullStr THEN "galDeleteFiles"
                                  ELSE "galDeleteRow"]
                     /\ resp' = resp
    /\ UNCHANGED <<dbVars, storage, detached, fnVars>>

\* DELETE, STEP 1: await utapi.deleteFiles(image.publicId) inside try/catch
GalleryDeleteFilesUncaught(p) ==
    /\ pc[p] = "galDeleteFiles"
    /\ \E outcome \in StorageOutcomes :
         /\ storage' = StorageAfter(loc[p].fileKeysToDelete, outcome)
         /\ loc' = [loc EXCEPT ![p].deleteOutcome = outcome]
         /\ IF outcome = "throws"
            THEN Reply(p, 500, "error")
            ELSE pc' = [pc EXCEPT ![p] = "galDeleteRow"] /\ resp' = resp
    /\ UNCHANGED <<dbVars, detached, req, fnVars>>
GalleryDeleteFiles(p) ==
    /\ pc[p] = "galDeleteFiles"
    /\ \E outcome \in StorageOutcomes :
         /\ storage' = StorageAfter(loc[p].fileKeysToDelete, outcome)
         /\ loc' = [loc EXCEPT ![p].deleteOutcome = outcome]
    /\ pc' = [pc EXCEPT ![p] = "galDeleteRow"]
    /\ UNCHANGED <<dbVars, detached, req, resp, fnVars>>

\* DELETE, STEP 2: prisma.galleryImage.delete
GalleryDeleteRow(p) ==
    /\ pc[p] = "galDeleteRow"
    /\ IF FindImage(req[p].id) = NoRow
       THEN images' = images /\ Reply(p, 500, "error")
       ELSE /\ images' = images \ {FindImage(req[p].id)}
            /\ Reply(p, 200, "success")
    /\ UNCHANGED <<categories, prices, nextId, storage, detached, req, loc, fnVars>>

-----------------------------------------------------------------------------
(* Responses: the body each handler sends, and the API client's reading of it *)

\* the keys of the JSON body of a response, by the handler and the kind of body
ResponseKeys(op, body) ==
    IF body = "error"
    THEN (IF op = "uploadDELETE" THEN {"error", "details"} ELSE {"error"})
    ELSE IF body = "room"
    THEN {"id", "slug", "title", "description", "specs", "essentialAmenities",
          "roomCount", "videoUrl", "images", "prices"}
    ELSE IF body = "message" THEN {"message"}
    ELSE IF op \in {"categoryDELETE", "galleryDELETE"} THEN {"success", "message"}
    ELSE IF op = "uploadDELETE" THEN {"success", "message", "key"}
    ELSE {"success", "data"}

\* apiClient: a response that is not ok becomes { success: false, error }, an ok
\* one { success: true, data, message }
ApiClientPassThrough(status, keys) ==
    [success |-> status \in 200..299 /\ "success" \in keys, keys |-> keys]
ApiClient(status, keys) ==
    IF status \in 200..299
    THEN [success |-> TRUE, keys |-> {"success", "data", "message"}]
    ELSE [success |-> FALSE, keys |-> {"success", "error"}]

-----------------------------------------------------------------------------
(* String-function drivers *)

TitleAlphabet == {"a", "D", "1", " ", "-", "_"}
TitleInputs == SeqsUpTo(TitleAlphabet, MaxTitleLen) \cup {Title_Deluxe, Title_Suite}

\* const slug = title.toLowerCase().replace(...).replace(...)
SlugDerive ==
    /\ fnPc = "title"
    /\ fnOut' = Slug(fnIn)
    /\ fnPc' = "slug"
    /\ UNCHANGED <<dbVars, storage, detached, procVars, fnIn>>

\* the derivation applied to a slug it produced (the title of a later PUT)
SlugAgain ==
    /\ fnPc = "slug"
    /\ fnOut' = Slug(fnOut)
    /\ fnPc' = "slugAgain"
    /\ UNCHANGED <<dbVars, storage, detached, procVars, fnIn>>

-----------------------------------------------------------------------------
(* Specifications *)

VideoLists ==
    {<<>>, <<[url |-> Url_f]>>, <<[url |-> Url_a]>>, <<[url |-> Url_x]>>,
     <<[url |-> Url_x], [url |-> Url_f]>>}

InRooms ==
    [serial |-> TRUE, procs |-> {1}, auths |-> {TRUE}, ids |-> 0..MaxCat,
     titles |-> {Title_Deluxe}, roomCounts |-> {5},
     imageLists |-> SeqsUpTo({Img_1, Img_2}, MaxImages),
     videoLists |-> {<<>>, <<[url |-> Url_f]>>}]

InitStore ==
    /\ categories = {}
    /\ images = {}
    /\ prices = {}
    /\ nextId = [cat |-> 1, img |-> 1, price |-> 1]
    /\ storage = UploadedKeys
    /\ detached = {}
    /\ pc = [p \in Procs |-> "idle"]
    /\ req = [p \in Procs |-> ReqNone]
    /\ loc = [p \in Procs |-> LocNone]
    /\ resp = [p \in Procs |-> RespNone]

Init ==
    /\ InitStore
    /\ fnIn = <<>>
    /\ fnOut = <<>>
    /\ fnPc = "none"

InitSlug ==
    /\ InitStore
    /\ fnIn \in TitleInputs
    /\ fnOut = <<>>
    /\ fnPc = "title"

NextSlug == SlugDerive \/ SlugAgain

SpecSlug == InitSlug /\ [][NextSlug]_vars

NextRooms ==
    \E p \in Procs :
        \/ RoomsPOST(p, InRooms)
        \/ RoomsPutFind(p, InRooms)
        \/ RoomsPutDeleteFiles(p)
        \/ RoomsPutDeleteImages(p)
        \/ RoomsPutUpdate(p)
        \/ RoomsDeleteFind(p, InRooms)
        \/ RoomsDeleteFiles(p)
        \/ RoomsDeleteRow(p)
        \/ Respond(p)

SpecRooms == Init /\ [][NextRooms]_vars

\* room creation alone, with every title, image list and video list
InCreate ==
    [serial |-> TRUE, procs |-> {1}, auths |-> {TRUE}, ids |-> 0..MaxCat,
     titles |-> {Title_Deluxe, Title_Suite}, roomCounts |-> {5},
     imageLists |-> SeqsUpTo({Img_1, Img_2}, MaxImages),
     videoLists |-> VideoLists]

NextCreate == \E p \in Procs : RoomsPOST(p, InCreate) \/ Respond(p)

SpecCreate == Init /\ [][NextCreate]_vars

\* both deletion routes and the update, over the shapes of stored video URLs
Url_blank == <<" ", " ">>

InVideo ==
    [serial |-> TRUE, procs |-> {1}, auths |-> {TRUE}, ids |-> 0..MaxCat,
     titles |-> {Title_Deluxe}, roomCounts |-> {5},
     imageLists |-> {<<>>, <<Img_1>>},
     videoLists |-> VideoLists \cup {<<[url |-> Url_ut]>>, <<[url |-> Url_blank]>>}]

NextVideo ==
    \/ \E p \in Procs :
        \/ RoomsPOST(p, InVideo)
        \/ RoomsPutFind(p, InVideo)
        \/ RoomsPutDeleteFiles(p)
        \/ RoomsPutDeleteImages(p)
        \/ RoomsPutUpdate(p)
        \/ RoomsDeleteFind(p, InVideo)
        \/ RoomsDeleteFiles(p)
        \/ RoomsDeleteRow(p)
        \/ CategoryDeleteFind(p, InVideo)
        \/ CategoryDeleteRow(p)
        \/ Respond(p)
    \/ DetachedDeleteFiles

SpecVideo == Init /\ [][NextVideo]_vars

\* price tiers: { hourlyHours, rateCents, label }
Tier(h, r, l) == [hourlyHours |-> h, rateCents |-> r, label |-> l]
TierBase ==
    <<Tier(24, 9000, NullStr), Tier(2, 1500, <<"d", "a", "y">>), Tier(12, 5000, NullStr),
      Tier(4, 2500, NullStr), Tier(6, 3500, NullStr), Tier(8, 4000, NullStr),
      Tier(1, 1000, NullStr)>>
TierBaseReversed == [i \in 1..Len(TierBase) |-> TierBase[Len(TierBase) + 1 - i]]
PriceLists ==
    {SubSeq(TierBase, 1, n) : n \in 0..MaxTiers}
      \cup {SubSeq(TierBaseReversed, 1, n) : n \in 0..MaxTiers}

InPrices ==
    [serial |-> TRUE, procs |-> {1}, auths |-> {TRUE}, ids |-> 1..MaxCat,
     titles |-> {Title_Deluxe}, roomCounts |-> {5},
     imageLists |-> {<<>>}, videoLists |-> {<<>>},
     dataSets |-> {<<>>, [roomCount |-> NumField(7)]},
     hasPrices |-> {TRUE, FALSE}, priceLists |-> PriceLists]

NextPrices ==
    \E p \in Procs :
        \/ RoomsPOST(p, InPrices)
        \/ CategoryPutValidate(p, InPrices)
        \/ CategoryPutTxUpdate(p)
        \/ CategoryPutTxDeleteMany(p)
        \/ CategoryPutTxCreateMany(p)
        \/ CategoryPutTxCommit(p)
        \/ Respond(p)

SpecPrices == Init /\ [][NextPrices]_vars

\* price replacements served concurrently; the two submitted lists share no
\* tier, so that no uniqueness rule on the tiers of a category could reject one
InPricesConc ==
    [serial |-> FALSE, procs |-> Procs, auths |-> {TRUE}, ids |-> {1},
     titles |-> {Title_Deluxe}, roomCounts |-> {5},
     imageLists |-> {<<>>}, videoLists |-> {<<>>},
     dataSets |-> {<<>>, [roomCount |-> NumField(7)]},
     hasPrices |-> {TRUE},
     priceLists |-> {SubSeq(TierBase, 1, 3), SubSeq(TierBaseReversed, 1, 2)}]

NextPricesConc ==
    \E p \in Procs :
        \/ RoomsPOST(p, InPricesConc)
        \/ CategoryPutValidate(p, InPricesConc)
        \/ CategoryPutTxUpdate(p)
        \/ CategoryPutTxDeleteMany(p)
        \/ CategoryPutTxDeleteResume(p)
        \/ CategoryPutTxCreateMany(p)
        \/ CategoryPutTxCommit(p)
        \/ Respond(p)

SpecPricesConc == Init /\ [][NextPricesConc]_vars

\* gallery items: creation from an uploaded file or from a file to upload,
\* update with and without a replacement file, deletion
Url_g1 == Lit_utfs \o <<"f", "/", "k", "1">>
Url_g2 == Lit_utfs \o <<"f", "/", "k", "2">>
Label_Lobby == <<"L", "o", "b", "b", "y">>
Caption_c == <<"c">>
Img_0 == [url |-> <<"u", "0">>, publicId |-> NullStr]

GalleryJson ==
    {[GalNone EXCEPT !.kind = "json", !.url = u, !.publicId = k, !.category = c] :
        u \in {NullStr, Url_g1}, k \in {NullStr, Key_k1}, c \in {NullStr, Label_Lobby}}
GalleryForm ==
    {[GalNone EXCEPT !.kind = "form", !.file = f, !.category = c] :
        f \in {"none", "image", "bigImage", "video"}, c \in {NullStr, Label_Lobby}}
      \cup {[GalNone EXCEPT !.kind = "other", !.category = Label_Lobby]}
GalleryPut ==
    {[GalNone EXCEPT !.kind = "form", !.url = r[1], !.publicId = r[2], !.category = c,
                     !.caption = t] :
        r \in {<<NullStr, NullStr>>, <<Url_g2, Key_k2>>, <<Url_g2, NullStr>>},
        c \in {NullStr, Label_Lobby}, t \in {Caption_c}}

InGallery ==
    [serial |-> TRUE, procs |-> {1}, auths |-> {TRUE}, ids |-> 0..MaxCat,
     titles |-> {Title_Deluxe}, roomCounts |-> {5},
     imageLists |-> {<<Img_0>>}, videoLists |-> {<<>>},
     imageIds |-> 0..(MaxGallery + 1), keys |-> {NullStr, Key_k1},
     galleryJson |-> GalleryJson, galleryForm |-> GalleryForm, galleryPut |-> GalleryPut]

NextGallery ==
    \E p \in Procs :
        \/ RoomsPOST(p, InGallery)
        \/ GalleryPostJson(p, InGallery)
        \/ GalleryPostForm(p, InGallery)
        \/ GalleryPostUpload(p)
        \/ GalleryPostCreate(p)
        \/ GalleryPutFind(p, InGallery)
        \/ GalleryPutDeleteFiles(p)
        \/ GalleryPutUpdate(p)
        \/ GalleryDeleteFind(p, InGallery)
        \/ GalleryDeleteFiles(p)
        \/ GalleryDeleteRow(p)
        \/ Respond(p)

SpecGallery == Init /\ [][NextGallery]_vars

\* the handlers that delete stored objects, under every outcome of the call
InStorage ==
    [serial |-> TRUE, procs |-> {1}, auths |-> {TRUE}, ids |-> 1..MaxCat,
     titles |-> {Title_Deluxe}, roomCounts |-> {5},
     imageLists |-> {<<>>, <<Img_1>>}, videoLists |-> {<<>>},
     imageIds |-> 1..MaxGallery, keys |-> {NullStr, Key_k2},
     galleryJson |-> {g \in GalleryJson :
                        g.url = Url_g1 /\ g.category # NullStr /\ g.caption = NullStr},
     galleryPut |-> {g \in GalleryPut : g.url # NullStr /\ g.category # NullStr}]

NextStorage ==
    \/ \E p \in Procs :
        \/ RoomsPOST(p, InStorage)
        \/ RoomsPutFind(p, InStorage)
        \/ RoomsPutDeleteFiles(p)
        \/ RoomsPutDeleteImages(p)
        \/ RoomsPutUpdate(p)
        \/ RoomsDeleteFind(p, InStorage)
        \/ RoomsDeleteFiles(p)
        \/ RoomsDeleteRow(p)
        \/ CategoryDeleteFind(p, InStorage)
        \/ CategoryDeleteRow(p)
        \/ GalleryPostJson(p, InStorage)
        \/ GalleryPutFind(p, InStorage)
        \/ GalleryPutDeleteFiles(p)
        \/ GalleryPutUpdate(p)
        \/ GalleryDeleteFind(p, InStorage)
        \/ GalleryDeleteFiles(p)
        \/ GalleryDeleteRow(p)
        \/ UploadDELETE(p, InStorage)
        \/ Respond(p)
    \/ DetachedDeleteFiles

SpecStorage == Init /\ [][NextStorage]_vars

\* every admin handler, with the requests that can fail: requests without a
\* session, for rows that exist and rows that do not, with payloads that pass
\* and payloads that fail the validation (categories without images, gallery
\* requests that upload nothing and replace no file)
Data_invalid == [roomCount |-> StrField(<<"x">>)]

InAdmin ==
    [serial |-> TRUE, procs |-> {1}, auths |-> {TRUE, FALSE}, ids |-> 1..MaxCat,
     titles |-> {Title_Deluxe}, roomCounts |-> {5},
     imageLists |-> {<<>>}, videoLists |-> {<<>>},
     dataSets |-> {<<>>, [roomCount |-> NumField(5)], Data_invalid},
     hasPrices |-> {TRUE}, priceLists |-> {<<>>, SubSeq(TierBase, 1, 1)},
     imageIds |-> 1..MaxGallery,
     galleryJson |-> {g \in GalleryJson : g.url # NullStr},
     galleryForm |-> {g \in GalleryForm :
                        g.file \in {"none", "image"} /\ ~GalleryDataValid(g)},
     galleryPut |-> {[g EXCEPT !.caption = NullStr] : g \in
                       {h \in GalleryPut :
                           /\ h.url = NullStr <=> h.publicId = NullStr
                           /\ ~HasReplacement(h) \/ ~GalleryDataValid(h)}}]

NextAdmin ==
    \E p \in Procs :
        \/ RoomsPOST(p, InAdmin)
        \/ RoomsPutFind(p, InAdmin)
        \/ RoomsPutDeleteImages(p)
        \/ RoomsPutUpdate(p)
        \/ RoomsDeleteFind(p, InAdmin)
        \/ RoomsDeleteRow(p)
        \/ CategoryGET(p, InAdmin)
        \/ CategoryPutValidate(p, InAdmin)
        \/ CategoryPutTxUpdate(p)
        \/ CategoryPutTxDeleteMany(p)
        \/ CategoryPutTxCreateMany(p)
        \/ CategoryPutTxCommit(p)
        \/ CategoryDeleteFind(p, InAdmin)
        \/ CategoryDeleteRow(p)
        \/ GalleryPostJson(p, InAdmin)
        \/ GalleryPostForm(p, InAdmin)
        \/ GalleryPutFind(p, InAdmin)
        \/ GalleryPutUpdate(p)
        \/ GalleryDeleteFind(p, InAdmin)
        \/ GalleryDeleteFiles(p)
        \/ GalleryDeleteRow(p)
        \/ Respond(p)

SpecAdmin == Init /\ [][NextAdmin]_vars

\* both routes, requests with and without an admin session
\* price replacements whose body carries the category fields empty: each field
\* omitted, null, an empty or blank string, or an empty object
EmptyFields == {NullField, StrField(<<>>), StrField(Url_blank), EmptyObject}
PriceOnlyData ==
    {<<>>} \cup {[title |-> v] : v \in EmptyFields}
           \cup {[roomCount |-> v] : v \in EmptyFields}
           \cup {[title |-> v, roomCount |-> w] : v \in EmptyFields, w \in EmptyFields}

InPriceOnly ==
    [serial |-> TRUE, procs |-> {1}, auths |-> {TRUE}, ids |-> {1},
     titles |-> {Title_Deluxe}, roomCounts |-> {5},
     imageLists |-> {<<Img_1>>}, videoLists |-> {<<[url |-> Url_f]>>},
     dataSets |-> PriceOnlyData,
     hasPrices |-> {TRUE}, priceLists |-> {SubSeq(TierBase, 1, n) : n \in {0, 2, MaxTiers}}]

NextPriceOnly ==
    \E p \in Procs :
        \/ RoomsPOST(p, InPriceOnly)
        \/ CategoryPutValidate(p, InPriceOnly)
        \/ CategoryPutTxUpdate(p)
        \/ CategoryPutTxDeleteMany(p)
        \/ CategoryPutTxCreateMany(p)
        \/ CategoryPutTxCommit(p)
        \/ Respond(p)

SpecPriceOnly == Init /\ [][NextPriceOnly]_vars

\* category Update and Delete on a store that holds two categories, each with
\* an image row and a price row, beside a standalone gallery item
FrameRoom(id, title) ==
    [id |-> id, slug |-> Slug(title), title |-> title, roomCount |-> 5,
     videoUrl |-> NullStr]

InitFrame ==
    /\ categories = {FrameRoom(1, Title_Deluxe), FrameRoom(2, Title_Suite)}
    /\ images = ImageRows(Title_Deluxe, <<Img_1>>, 1, 1)
                   \cup ImageRows(Title_Suite, <<Img_2>>, 2, 2)
                   \cup {GalleryRow(3, [GalNone EXCEPT !.category = Label_Lobby],
                                    Url_g1, Key_ABC123)}
    /\ prices = PriceRows(SubSeq(TierBase, 1, 1), 1, 1)
                   \cup PriceRows(SubSeq(TierBase, 2, 2), 2, 2)
    /\ nextId = [cat |-> 3, img |-> 4, price |-> 3]
    /\ storage = UploadedKeys
    /\ detached = {}
    /\ pc = [p \in Procs |-> "idle"]
    /\ req = [p \in Procs |-> ReqNone]
    /\ loc = [p \in Procs |-> LocNone]
    /\ resp = [p \in Procs |-> RespNone]
    /\ fnIn = <<>>
    /\ fnOut = <<>>
    /\ fnPc = "none"

InFrame ==
    [serial |-> TRUE, procs |-> {1}, auths |-> {TRUE}, ids |-> 1..MaxCat,
     titles |-> {Title_Deluxe, Title_Suite}, roomCounts |-> {7},
     imageLists |-> SeqsUpTo({Img_1, Img_2}, 1),
     videoLists |-> {<<>>}]

NextFrame ==
    \/ \E p \in Procs :
        \/ RoomsPutFind(p, InFrame)
        \/ RoomsPutDeleteFiles(p)
        \/ RoomsPutDeleteImages(p)
        \/ RoomsPutUpdate(p)
        \/ RoomsDeleteFind(p, InFrame)
        \/ RoomsDeleteFiles(p)
        \/ RoomsDeleteRow(p)
        \/ CategoryDeleteFind(p, InFrame)
        \/ CategoryDeleteRow(p)
        \/ Respond(p)
    \/ DetachedDeleteFiles

SpecFrame == InitFrame /\ [][NextFrame]_vars

\* price replacements that fail inside the transaction: a tier without its
\* hours makes createMany throw after the update and the deleteMany have run
Tier_incomplete == [rateCents |-> 1000, label |-> NullStr]

InReplace ==
    [serial |-> TRUE, procs |-> {1}, auths |-> {TRUE}, ids |-> 1..MaxCat,
     titles |-> {Title_Deluxe}, roomCounts |-> {5},
     imageLists |-> {<<>>}, videoLists |-> {<<>>},
     dataSets |-> {<<>>, [roomCount |-> NumField(7)]},
     hasPrices |-> {TRUE, FALSE},
     priceLists |-> {<<>>, SubSeq(TierBase, 1, 2), <<Tier_incomplete>>,
                     SubSeq(TierBase, 3, 3) \o <<Tier_incomplete>>}]

NextReplace ==
    \E p \in Procs :
        \/ RoomsPOST(p, InReplace)
        \/ CategoryPutValidate(p, InReplace)
        \/ CategoryPutTxUpdate(p)
        \/ CategoryPutTxDeleteMany(p)
        \/ CategoryPutTxCreateMany(p)
        \/ CategoryPutTxCommit(p)
        \/ Respond(p)

SpecReplace == Init /\ [][NextReplace]_vars

\* category Updates served concurrently for one category that has an image row
InitRoomsConc ==
    /\ categories = {FrameRoom(1, Title_Deluxe)}
    /\ images = ImageRows(Title_Deluxe, <<Img_1>>, 1, 2)
    /\ prices = {}
    /\ nextId = [cat |-> 2, img |-> 3, price |-> 1]
    /\ storage = UploadedKeys
    /\ detached = {}
    /\ pc = [p \in Procs |-> "idle"]
    /\ req = [p \in Procs |-> ReqNone]
    /\ loc = [p \in Procs |-> LocNone]
    /\ resp = [p \in Procs |-> RespNone]
    /\ fnIn = <<>>
    /\ fnOut = <<>>
    /\ fnPc = "none"

InRoomsConc ==
    [serial |-> FALSE, procs |-> Procs, auths |-> {TRUE}, ids |-> {1},
     titles |-> {Title_Deluxe}, roomCounts |-> {5, 7},
     imageLists |-> {<<Img_1>>, <<Img_2>>}, videoLists |-> {<<>>}]

NextRoomsConc ==
    \E p \in Procs :
        \/ RoomsPutFind(p, InRoomsConc)
        \/ RoomsPutDeleteFiles(p)
        \/ RoomsPutDeleteImages(p)
        \/ RoomsPutUpdate(p)
        \/ Respond(p)

SpecRoomsConc == InitRoomsConc /\ [][NextRoomsConc]_vars

-----------------------------------------------------------------------------
(* src/lib/api-client.ts: fetchWithTimeout and apiClient *)

TimeoutError == "Request timeout. Please try again."
UnexpectedError == "An unexpected error occurred"
UnknownError == "Unknown error"
\* messages of the errors raised by the platform
FailedToFetch == "Failed to fetch"
AbortMessage == "The operation was aborted."
NotAnObject == "Cannot read properties of null"
BadJson == "Unexpected token in JSON"
HttpErrorStatusText == "HTTP Error 500: Internal Server Error"
HttpErrorStatus == "HTTP Error 500"
\* error strings the route handlers send
ServerErrors == {"Unauthorized", "Category not found", "Failed to update image"}
ServerMessage == "Room deleted successfully"

\* what fetch can settle with: a Response by its ok flag, its content type and
\* what reading its body gives
JsonBodies ==
    {[kind |-> "envelope", error |-> "none"], [kind |-> "bare", error |-> "none"],
     [kind |-> "message", error |-> "none"], [kind |-> "empty", error |-> "none"],
     [kind |-> "null", error |-> "none"], [kind |-> "unparsable", error |-> "none"],
     [kind |-> "broken", error |-> "none"]}
        \cup {[kind |-> "error", error |-> e] : e \in ServerErrors}
TextBodies == {[kind |-> "text", error |-> "none"], [kind |-> "broken", error |-> "none"]}
Responses ==
    {[ok |-> ok, json |-> TRUE, body |-> b] : ok \in BOOLEAN, b \in JsonBodies}
        \cup {[ok |-> ok, json |-> FALSE, body |-> b] : ok \in BOOLEAN, b \in TextBodies}
ResponseNone == [ok |-> FALSE, json |-> FALSE, body |-> [kind |-> "none", error |-> "none"]]

\* what a rejected fetch throws when the signal has not aborted: a TypeError, or
\* a value that is not an Error
Rejections == {"TypeError", "NonError"}

ResultNone == [settled |-> "pending", success |-> FALSE, data |-> "none", error |-> "none"]
ClientNone ==
    [attempt |-> 0, log |-> <<>>, timer |-> "none", armed |-> 0, cleared |-> 0,
     lateAbort |-> FALSE, lastError |-> "none", response |-> ResponseNone,
     result |-> ResultNone]

\* error instanceof Error ? error : new Error('Unknown error')
LastError(thrown) == IF thrown = "NonError" THEN "Error" ELSE thrown
ErrorMessage(name) ==
    IF name = "AbortError" THEN AbortMessage
    ELSE IF name = "TypeError" THEN FailedToFetch
    ELSE IF name = "SyntaxError" THEN BadJson
    ELSE UnknownError

\* const controller = new AbortController(); const timeoutId = setTimeout(...);
\* the loop entered with attempt = 0 and the first fetch issued
FetchWithTimeoutCall ==
    /\ fnPc = "call"
    /\ fnOut' = [fnOut EXCEPT !.timer = "armed", !.armed = @ + 1, !.attempt = 0]
    /\ fnPc' = "fetching"
    /\ UNCHANGED <<dbVars, storage, detached, procVars, fnIn>>

\* setTimeout's callback: controller.abort()
TimerFires ==
    /\ fnOut.timer = "armed"
    /\ fnOut' = [fnOut EXCEPT !.timer = "fired",
                              !.lateAbort = fnPc \notin {"fetching", "delay"}]
    /\ UNCHANGED <<dbVars, storage, detached, procVars, fnIn, fnPc>>

\* await fetch(...) fulfils: clearTimeout(timeoutId); return response
FetchFulfilsKeepsTimer ==
    /\ fnPc = "fetching"
    /\ fnOut.timer # "fired"
    /\ \E r \in Responses :
         fnOut' = [fnOut EXCEPT !.log = Append(@, "fulfilled"), !.response = r]
    /\ fnPc' = "returned"
    /\ UNCHANGED <<dbVars, storage, detached, procVars, fnIn>>
FetchFulfils ==
    /\ fnPc = "fetching"
    /\ fnOut.timer # "fired"
    /\ \E r \in Responses :
         fnOut' = [fnOut EXCEPT !.log = Append(@, "fulfilled"), !.response = r,
                                !.timer = "cleared", !.cleared = @ + 1]
    /\ fnPc' = "returned"
    /\ UNCHANGED <<dbVars, storage, detached, procVars, fnIn>>

\* await fetch(...) rejects: an AbortError once the signal has aborted, another
\* error otherwise; the catch block throws on an AbortError or on the last
\* attempt, and awaits the delay otherwise
FetchRejectsRetriesAbort ==
    /\ fnPc = "fetching"
    /\ \E thrown \in (IF fnOut.timer = "fired" THEN {"AbortError"} ELSE Rejections) :
         LET lastError == LastError(thrown)
         IN  IF fnOut.attempt = fnIn.retries
             THEN /\ fnOut' = [fnOut EXCEPT !.log = Append(@, thrown),
                                            !.lastError = lastError,
                                            !.timer = IF @ = "armed" THEN "cleared" ELSE @,
                                            !.cleared = @ + 1]
                  /\ fnPc' = "threw"
             ELSE /\ fnOut' = [fnOut EXCEPT !.log = Append(@, thrown),
                                            !.lastError = lastError]
                  /\ fnPc' = "delay"
    /\ UNCHANGED <<dbVars, storage, detached, procVars, fnIn>>
FetchRejects ==
    /\ fnPc = "fetching"
    /\ \E thrown \in (IF fnOut.timer = "fired" THEN {"AbortError"} ELSE Rejections) :
         LET lastError == LastError(thrown)
         IN  IF lastError = "AbortError" \/ fnOut.attempt = fnIn.retries
             THEN /\ fnOut' = [fnOut EXCEPT !.log = Append(@, thrown),
                                            !.lastError = lastError,
                                            !.timer = IF @ = "armed" THEN "cleared" ELSE @,
                                            !.cleared = @ + 1]
                  /\ fnPc' = "threw"
             ELSE /\ fnOut' = [fnOut EXCEPT !.log = Append(@, thrown),
                                            !.lastError = lastError]
                  /\ fnPc' = "delay"
    /\ UNCHANGED <<dbVars, storage, detached, procVars, fnIn>>

\* await delay(retryDelay) ends: attempt++, and the next fetch is issued while
\* attempt <= retries; after the loop clearTimeout and throw lastError
DelayEnds ==
    /\ fnPc = "delay"
    /\ IF fnOut.attempt + 1 <= fnIn.retries
       THEN /\ fnOut' = [fnOut EXCEPT !.attempt = @ + 1]
            /\ fnPc' = "fetching"
       ELSE /\ fnOut' = [fnOut EXCEPT !.attempt = @ + 1,
                                      !.timer = IF @ = "armed" THEN "cleared" ELSE @,
                                      !.cleared = @ + 1]
            /\ fnPc' = "threw"
    /\ UNCHANGED <<dbVars, storage, detached, procVars, fnIn>>

\* the part of apiClient's try block after fetchWithTimeout returned: the value
\* it returns, or the error it throws
Returned(data) == [thrown |-> FALSE, data |-> data, name |-> "none", message |-> "none"]
Thrown(name, message) == [thrown |-> TRUE, data |-> "none", name |-> name, message |-> message]
ApiClientTry(r) ==
    IF ~r.json
    THEN IF ~r.ok THEN Thrown("ApiError", HttpErrorStatusText)
         ELSE IF r.body.kind = "broken" THEN Thrown("TypeError", FailedToFetch)
         ELSE Returned("text")
    ELSE IF r.body.kind = "broken" THEN Thrown("TypeError", FailedToFetch)
    ELSE IF r.body.kind = "unparsable" THEN Thrown("SyntaxError", BadJson)
    ELSE IF r.body.kind = "null" THEN Thrown("TypeError", NotAnObject)
    ELSE IF ~r.ok
    THEN Thrown("ApiError",
                IF r.body.kind = "error" THEN r.body.error
                ELSE IF r.body.kind \in {"message", "envelope"} THEN ServerMessage
                ELSE HttpErrorStatus)
    ELSE Returned(IF r.body.kind = "envelope" THEN "data.data" ELSE "data")

\* apiClient's catch block
Failure(message) ==
    [settled |-> "fulfilled", success |-> FALSE, data |-> "none", error |-> message]
Success(data) ==
    [settled |-> "fulfilled", success |-> TRUE, data |-> data, error |-> "none"]
ApiClientCatchMessage(name, message) ==
    IF name \in {"ApiError", "AbortError", "TypeError", "SyntaxError", "Error"}
    THEN Failure(message)
    ELSE Failure(UnexpectedError)
ApiClientCatch(name, message) ==
    IF name = "ApiError" THEN Failure(message)
    ELSE IF name = "AbortError" THEN Failure(TimeoutError)
    ELSE IF name \in {"TypeError", "SyntaxError", "Error"} THEN Failure(message)
    ELSE Failure(UnexpectedError)

\* apiClient, from the return of fetchWithTimeout to its own return
ApiClientReturns ==
    /\ fnPc = "returned"
    /\ LET t == ApiClientTry(fnOut.response)
       IN  fnOut' = [fnOut EXCEPT !.result =
                        IF t.thrown THEN ApiClientCatch(t.name, t.message)
                        ELSE Success(t.data)]
    /\ fnPc' = "resolved"
    /\ UNCHANGED <<dbVars, storage, detached, procVars, fnIn>>

\* apiClient when fetchWithTimeout throws
ApiClientCatches ==
    /\ fnPc = "threw"
    /\ fnOut' = [fnOut EXCEPT !.result =
                    ApiClientCatch(fnOut.lastError, ErrorMessage(fnOut.lastError))]
    /\ fnPc' = "resolved"
    /\ UNCHANGED <<dbVars, storage, detached, procVars, fnIn>>

InitClient ==
    /\ InitStore
    /\ fnIn \in [retries : 0..MaxRetries]
    /\ fnOut = ClientNone
    /\ fnPc = "call"

NextClient ==
    \/ FetchWithTimeoutCall
    \/ TimerFires
    \/ FetchFulfils
    \/ FetchRejects
    \/ DelayEnds
    \/ ApiClientReturns
    \/ ApiClientCatches

SpecClient == InitClient /\ [][NextClient]_vars

\* every started fetch settles (the armed timer aborts it at the latest), every
\* delay ends, and the code after an await runs
FairClient ==
    /\ WF_vars(FetchWithTimeoutCall)
    /\ WF_vars(TimerFires)
    /\ WF_vars(FetchRejects /\ fnOut.timer = "fired")
    /\ WF_vars(DelayEnds)
    /\ WF_vars(ApiClientReturns)
    /\ WF_vars(ApiClientCatches)
SpecClientFair == SpecClient /\ FairClient

-----------------------------------------------------------------------------
(* src/app/admin/_components/FileUpload.tsx: onDrop and the upload callbacks *)

ImageLimit == 4 * 1024 * 1024
VideoLimit == 64 * 1024 * 1024
DurationLimit == 60

\* the files a user can drop: type, size in bytes, and for a video whether its
\* metadata loads and the duration it reports
DroppedFiles ==
    [kind : {"image", "video", "other"},
     size : {ImageLimit, ImageLimit + 1, VideoLimit, VideoLimit + 1},
     metadata : {"loads", "error"},
     duration : {DurationLimit, DurationLimit + 1}]
FileNone == [kind |-> "none", size |-> 0, metadata |-> "none", duration |-> 0]
WidgetNone ==
    [file |-> FileNone, uploading |-> FALSE, error |-> "none",
     starts |-> 0, ends |-> 0, delivered |-> 0]

\* useDropzone's accept for the fileType prop
Accepted(file, fileType) ==
    IF fileType = "video" THEN file.kind = "video"
    ELSE IF fileType = "both" THEN file.kind \in {"image", "video"}
    ELSE file.kind = "image"

\* file.type.startsWith('video/') && (fileType === "video" || fileType === "both")
NeedsDurationCheck(file, fileType) ==
    file.kind = "video" /\ fileType \in {"video", "both"}
\* checkDuration: onloadedmetadata resolves duration <= 60, onerror resolves false
IsValidDuration(file) ==
    file.metadata = "loads" /\ file.duration <= DurationLimit
\* the two size tests
TooLarge(file) ==
    \/ file.kind = "image" /\ file.size > ImageLimit
    \/ file.kind = "video" /\ file.size > VideoLimit
SizeError(file) ==
    IF file.kind = "image" THEN "Image file too large. Maximum size is 4MB."
    ELSE "Video file too large. Maximum size is 64MB."

\* onDrop from the size tests on: setError and return, or setUploading(true),
\* setError(null), onUploadStart?.() and the call of startUpload
SizeTestsAndStart(file) ==
    IF TooLarge(file)
    THEN /\ fnOut' = [fnOut EXCEPT !.file = file, !.error = SizeError(file)]
         /\ fnPc' = "idle"
    ELSE /\ fnOut' = [fnOut EXCEPT !.file = file, !.uploading = TRUE, !.error = "none",
                                   !.starts = @ + 1]
         /\ fnPc' = "startUpload"

\* onDrop up to its first await; the dropzone is disabled while uploading
OnDrop ==
    /\ fnPc = "idle"
    /\ ~fnOut.uploading
    /\ fnOut.starts < MaxUploads
    /\ \E file \in DroppedFiles :
         IF ~Accepted(file, fnIn.fileType)
         THEN fnOut' = fnOut /\ fnPc' = fnPc
         ELSE IF NeedsDurationCheck(file, fnIn.fileType)
         THEN /\ fnOut' = [fnOut EXCEPT !.file = file]
              /\ fnPc' = "checkDuration"
         ELSE SizeTestsAndStart(file)
    /\ UNCHANGED <<dbVars, storage, detached, procVars, fnIn>>

\* await checkDuration settles
OnDropDurationChecked ==
    /\ fnPc = "checkDuration"
    /\ IF ~IsValidDuration(fnOut.file)
       THEN /\ fnOut' = [fnOut EXCEPT !.error = "Video duration must be 60 seconds or less."]
            /\ fnPc' = "idle"
       ELSE SizeTestsAndStart(fnOut.file)
    /\ UNCHANGED <<dbVars, storage, detached, procVars, fnIn>>

\* onClientUploadComplete(files): with files[0], onFileUpload, setUploading(false)
\* and onUploadEnd?.(); without one, nothing; startUpload then resolves
OnClientUploadComplete ==
    /\ fnPc = "startUpload"
    /\ \E hasFile \in BOOLEAN :
         IF hasFile
         THEN fnOut' = [fnOut EXCEPT !.uploading = FALSE, !.ends = @ + 1,
                                     !.delivered = @ + 1]
         ELSE fnOut' = fnOut
    /\ fnPc' = "idle"
    /\ UNCHANGED <<dbVars, storage, detached, procVars, fnIn>>

\* onUploadError(error): setError, setUploading(false), onUploadEnd?.();
\* startUpload then resolves
OnUploadError ==
    /\ fnPc = "startUpload"
    /\ fnOut' = [fnOut EXCEPT !.uploading = FALSE, !.ends = @ + 1,
                              !.error = "Upload failed. Please try again."]
    /\ fnPc' = "idle"
    /\ UNCHANGED <<dbVars, storage, detached, procVars, fnIn>>

\* await startUpload([file]) throws: the catch block of onDrop
OnDropCatch ==
    /\ fnPc = "startUpload"
    /\ fnOut' = [fnOut EXCEPT !.uploading = FALSE, !.ends = @ + 1,
                              !.error = IF fnIn.fileType = "video"
                                        THEN "Failed to upload video. Please try again."
                                        ELSE "Failed to upload image. Please try again."]
    /\ fnPc' = "idle"
    /\ UNCHANGED <<dbVars, storage, detached, procVars, fnIn>>

InitUpload ==
    /\ InitStore
    /\ fnIn \in [fileType : {"image", "video", "both"}]
    /\ fnOut = WidgetNone
    /\ fnPc = "idle"

NextUpload ==
    \/ OnDrop
    \/ OnDropDurationChecked
    \/ OnClientUploadComplete
    \/ OnUploadError
    \/ OnDropCatch

SpecUpload == InitUpload /\ [][NextUpload]_vars

\* a started upload settles in one of its ways, and the metadata of a dropped
\* video loads or fails
FairUpload ==
    /\ WF_vars(OnDropDurationChecked)
    /\ WF_vars(OnClientUploadComplete \/ OnUploadError \/ OnDropCatch)
SpecUploadFair == SpecUpload /\ FairUpload

InAll ==
    [serial |-> TRUE, procs |-> {1}, auths |-> {TRUE, FALSE}, ids |-> 0..MaxCat,
     titles |-> {Title_Deluxe}, roomCounts |-> {5},
     imageLists |-> {<<>>, <<Img_1, Img_2>>},
     videoLists |-> {<<>>, <<[url |-> Url_f]>>},
     dataSets |-> {<<>>},
     hasPrices |-> {TRUE}, priceLists |-> {SubSeq(TierBase, 1, n) : n \in {0, MaxTiers}}]

Next ==
    \/ \E p \in Procs :
        \/ RoomsPOST(p, InAll)
        \/ RoomsPutFind(p, InAll)
        \/ RoomsPutDeleteFiles(p)
        \/ RoomsPutDeleteImages(p)
        \/ RoomsPutUpdate(p)
        \/ RoomsDeleteFind(p, InAll)
        \/ RoomsDeleteFiles(p)
        \/ RoomsDeleteRow(p)
        \/ CategoryPutValidate(p, InAll)
        \/ CategoryPutTxUpdate(p)
        \/ CategoryPutTxDeleteMany(p)
        \/ CategoryPutTxCreateMany(p)
        \/ CategoryPutTxCommit(p)
        \/ CategoryDeleteFind(p, InAll)
        \/ CategoryDeleteRow(p)
        \/ Respond(p)
    \/ DetachedDeleteFiles

Spec == Init /\ [][Next]_vars

-----------------------------------------------------------------------------
(* Properties *)

Done(p, op) == pc[p] = "done" /\ req[p].op = op

KeysOf(rows) == {r.publicId : r \in rows}
SubmittedImageKeys(p) == {req[p].images[i].publicId : i \in 1..Len(req[p].images)}
SubmittedVideoUrl(p) == IF req[p].videos = <<>> THEN NullStr ELSE req[p].videos[1].url
ImagesBefore(p) == {r \in loc[p].pre.images : r.categoryId = req[p].id}
PricesBefore(p) == {q \in loc[p].pre.prices : q.categoryId = req[p].id}

\* C1: every step of a request made without a valid admin session leaves the
\* rows of every table and the storage objects as they were, and the request is
\* answered with status 401.
C1_UnauthorizedIs401AndMutatesNothing ==
    [][\A p \in Procs :
          (pc'[p] # pc[p] /\ req'[p].op # "none" /\ ~req'[p].auth) =>
             /\ categories' = categories
             /\ images' = images
             /\ prices' = prices
             /\ storage' = storage
             /\ (pc'[p] = "done" => resp'[p].status = 401)]_vars

\* C2: a category Delete (either route) that found its category ends with the
\* category row and all of its Price and Image rows absent, whatever the
\* outcome of the storage deletion.
C2_DeleteRemovesCategoryAndChildren ==
    \A p \in Procs :
        (pc[p] = "done" /\ req[p].op \in {"roomsDELETE", "categoryDELETE"}
           /\ loc[p].existing # NoRow) =>
            /\ FindCategory(req[p].id) = NoRow
            /\ ImagesOf(req[p].id) = {}
            /\ PricesOf(req[p].id) = {}

\* a Delete of a category that had image and price rows, whose storage deletion threw
C2_Witness ==
    \E p \in Procs :
        /\ Done(p, "roomsDELETE")
        /\ loc[p].deleteOutcome = "throws"
        /\ ImagesBefore(p) # {}
        /\ PricesBefore(p) # {}
        /\ resp[p].status = 200

TierOf(row) == Tier(row.hourlyHours, row.rateCents, row.label)

\* C3: a price replacement that submits n tiers leaves exactly min(n, 4) price
\* rows for the category, the first min(n, 4) submitted tiers in submission
\* order, and none of the rows stored before.
C3_ReplacementKeepsFirstFourTiers ==
    \A p \in Procs :
        (Done(p, "categoryPUT") /\ resp[p].status = 200 /\ req[p].hasPrices) =>
            LET rows == ById(PricesOf(req[p].id))
                n == Len(req[p].prices)
                m == IF n < 4 THEN n ELSE 4
            IN  /\ Len(rows) = m
                /\ \A i \in 1..m : TierOf(rows[i]) = req[p].prices[i]
                /\ PricesOf(req[p].id) \cap loc[p].pre.prices = {}

\* more than four tiers submitted for a category that had price rows
C3_Witness ==
    \E p \in Procs :
        /\ Done(p, "categoryPUT")
        /\ resp[p].status = 200
        /\ Len(req[p].prices) > 4
        /\ PricesBefore(p) # {}
        /\ Cardinality(PricesOf(req[p].id)) = 4

\* C4: in every reachable state, with price replacements for one category served
\* concurrently, each category has at most 4 price rows.
C4_AtMostFourPriceRows ==
    \A c \in 1..MaxCat : Cardinality(PricesOf(c)) <= 4

\* C5: after a category Update that submits n images the category has no more
\* than n image rows.
C5_UpdateLeavesAtMostSubmittedImages ==
    \A p \in Procs :
        (Done(p, "roomsPUT") /\ loc[p].existing # NoRow) =>
            Cardinality(ImagesOf(req[p].id)) <= Len(req[p].images)

\* an Update with an empty image list of a category that had image rows
C5_Witness ==
    \E p \in Procs :
        /\ Done(p, "roomsPUT")
        /\ resp[p].status = 200
        /\ req[p].images = <<>>
        /\ ImagesBefore(p) # {}

ImageKeyUniverse == {Img_1.publicId, Img_2.publicId}

\* C6: the image keys a category Update passes to storage deletion are exactly
\* the keys of the category's image rows that are not among the submitted keys;
\* updating a category whose only image has key k1 with an empty list calls
\* storage delete with [k1] and leaves no image row.
C6_UpdateDeletesExactlyDroppedImageKeys ==
    \A p \in Procs :
        (req[p].op = "roomsPUT" /\ loc[p].existing # NoRow) =>
            LET old == KeysOf(ImagesBefore(p))
                passed == Range(loc[p].fileKeysToDelete) \cap ImageKeyUniverse
            IN  /\ passed = old \ SubmittedImageKeys(p)
                /\ (pc[p] \in {"putDeleteImages", "putUpdate", "done"}
                      /\ loc[p].fileKeysToDelete # <<>>) =>
                       loc[p].deleteOutcome # "none"
                /\ (pc[p] = "done" /\ Cardinality(ImagesBefore(p)) = 1
                      /\ old = {Key_k1} /\ req[p].images = <<>>
                      /\ loc[p].existing.videoUrl = NullStr /\ req[p].videos = <<>>) =>
                       /\ loc[p].fileKeysToDelete = <<Key_k1>>
                       /\ loc[p].deleteOutcome # "none"
                       /\ ImagesOf(req[p].id) = {}

\* the scenario: one image k1, updated with images: []
C6_Witness ==
    \E p \in Procs :
        /\ Done(p, "roomsPUT")
        /\ resp[p].status = 200
        /\ KeysOf(ImagesBefore(p)) = {Key_k1}
        /\ req[p].images = <<>>
        /\ loc[p].fileKeysToDelete = <<Key_k1>>
        /\ ImagesOf(req[p].id) = {}

\* the stored video is being replaced, removed or deleted with its category
VideoGoes(p) ==
    /\ req[p].op \in {"roomsPUT", "roomsDELETE", "categoryDELETE"}
    /\ loc[p].existing # NoRow
    /\ req[p].op = "roomsPUT" => loc[p].existing.videoUrl # SubmittedVideoUrl(p)

VideoKeyScheduled(p) == Key_ABC123 \in Range(loc[p].fileKeysToDelete)

\* C7 as stated: Update and Delete recover ABC123 from each of
\* https://host/f/ABC123, https://host/a/app1/ABC123 and
\* https://host/x/y/ABC123?q=1.
C7_KeyRecoveredFromEveryShape ==
    \A p \in Procs :
        (VideoGoes(p) /\ loc[p].existing.videoUrl \in {Url_f, Url_a, Url_x}) =>
            VideoKeyScheduled(p)

\* C7, what the handlers do: Update recovers ABC123 from https://host/f/ABC123
\* and https://host/a/app1/ABC123, Delete (both routes) from
\* https://host/f/ABC123 only; for the other URLs no key is yielded, the video's
\* storage cleanup is skipped and the operation completes with its success
\* response.
C7_KeyRecoveredFromKnownShapes ==
    \A p \in Procs :
        VideoGoes(p) =>
            LET url == loc[p].existing.videoUrl
                known == IF req[p].op = "roomsPUT" THEN {Url_f, Url_a} ELSE {Url_f}
            IN  /\ url \in known => VideoKeyScheduled(p)
                /\ url \in {Url_f, Url_a, Url_x} \ known =>
                     /\ ~VideoKeyScheduled(p)
                     /\ pc[p] = "done" => resp[p].status = 200

\* an Update that replaced a video whose URL matches no pattern
C7_Witness ==
    \E p \in Procs :
        /\ Done(p, "roomsPUT")
        /\ VideoGoes(p)
        /\ loc[p].existing.videoUrl = Url_x
        /\ ~VideoKeyScheduled(p)
        /\ resp[p].status = 200
        /\ FindCategory(req[p].id).videoUrl = SubmittedVideoUrl(p)

IsSlugShape(s) ==
    /\ \A i \in 1..Len(s) : s[i] \in Range(LowerCase) \cup Range(Digits) \cup {"-"}
    /\ \A i \in 1..(Len(s) - 1) : ~(s[i] = "-" /\ s[i + 1] = "-")
    /\ s # <<>> => s[1] # "-" /\ s[Len(s)] # "-"

\* C8: the slug of every title holds only lowercase alphanumerics and single
\* '-' separators, none leading or trailing, and deriving the slug of a slug
\* gives the same slug.
C8_SlugShapeAndIdempotence ==
    /\ fnPc \in {"slug", "slugAgain"} => IsSlugShape(fnOut)
    /\ fnPc = "slugAgain" => fnOut = Slug(fnIn)

Slug_deluxe_room == <<"d", "e", "l", "u", "x", "e", "-", "r", "o", "o", "m">>

\* "Deluxe Room" gives "deluxe-room", and so does "deluxe-room"
C8_Witness ==
    /\ fnPc = "slugAgain"
    /\ fnIn = Title_Deluxe
    /\ fnOut = Slug_deluxe_room

ExpectedCaption(title, i) ==
    title \o <<" ", "-", " ", "I", "m", "a", "g", "e", " ">>
          \o <<(<<"1", "2", "3", "4", "5", "6", "7", "8", "9">>)[i]>>

\* C9: a Create with k image descriptors persists one category row and exactly
\* k image rows, the i-th with the i-th descriptor's url and key and the caption
\* "<title> - Image <i>"; the row holds the first submitted video's URL or
\* null; the storage is not touched.
C9_CreatePersistsRowImagesAndVideoUrl ==
    \A p \in Procs :
        (Done(p, "roomsPOST") /\ resp[p].status = 201) =>
            LET room == loc[p].room
                rows == ById(ImagesOf(room.id))
            IN  /\ room \in categories
                /\ categories \ loc[p].pre.categories = {room}
                /\ room.title = req[p].title
                /\ room.videoUrl = SubmittedVideoUrl(p)
                /\ images \ loc[p].pre.images = ImagesOf(room.id)
                /\ Len(rows) = Len(req[p].images)
                /\ \A i \in 1..Len(rows) :
                     /\ rows[i].url = req[p].images[i].url
                     /\ rows[i].publicId = req[p].images[i].publicId
                     /\ rows[i].caption = ExpectedCaption(req[p].title, i)
                /\ storage = loc[p].pre.storage
                /\ detached = {}

\* a Create with two different images and two videos
C9_Witness ==
    \E p \in Procs :
        /\ Done(p, "roomsPOST")
        /\ resp[p].status = 201
        /\ req[p].images = <<Img_2, Img_1>>
        /\ Len(req[p].videos) = 2
        /\ loc[p].room.videoUrl = Url_x
        /\ loc[p].room.slug = Slug_deluxe_room

Rows == <<categories, images, prices>>

\* C11: in a category Update, a step that writes to the database is taken only
\* after the storage deletion of the scheduled keys, if any, has been issued and
\* has returned (with any outcome); the deletion step itself writes nothing to
\* the database, and no storage call follows the first write.
C11_StorageDeletionCompletesBeforeFirstWrite ==
    [][\A p \in Procs :
          (req[p].op = "roomsPUT" /\ pc'[p] # pc[p]) =>
             /\ Rows' # Rows =>
                   /\ pc[p] \in {"putDeleteImages", "putUpdate"}
                   /\ loc[p].fileKeysToDelete # <<>> => loc[p].deleteOutcome # "none"
             /\ pc[p] = "putDeleteFiles" =>
                   /\ Rows' = Rows
                   /\ loc'[p].deleteOutcome # "none"
                   /\ pc'[p] = "putDeleteImages"
             /\ pc[p] \in {"putDeleteImages", "putUpdate"} => storage' = storage]_vars

\* the old image rows are deleted after a storage deletion that reported failure
C11_Witness ==
    \E p \in Procs :
        /\ req[p].op = "roomsPUT"
        /\ pc[p] = "putUpdate"
        /\ loc[p].fileKeysToDelete # <<>>
        /\ loc[p].deleteOutcome = "failed"
        /\ ImagesBefore(p) # {}
        /\ ImagesOf(req[p].id) = {}

\* a step of slot p that attempts the storage deletion of a rooms Delete
RoomsDeleteAttempt(p) ==
    req[p].op = "roomsDELETE" /\ pc[p] = "deleteFiles" /\ pc'[p] # pc[p]

\* a step of slot p that issues the storage deletion of a categories/[id] Delete
CategoryDeleteIssue(p) ==
    req[p].op = "categoryDELETE" /\ pc'[p] # pc[p] /\ detached' # detached

\* a step in which a storage deletion that was not awaited completes
DetachedCompletes == detached' # detached /\ detached' \subseteq detached

GalleryPutRuns(p) ==
    /\ req[p].op = "galleryPUT"
    /\ loc[p].existing # NoRow
    /\ GalleryDataValid(req[p].gal)

\* C13: in a gallery Update with a replacement url and key for a row that has a
\* storage key, the deletion of the old object is attempted while the row is
\* still unchanged, and the Update ends with the row holding the new url and key
\* whatever the outcome of that deletion; without a replacement pair no storage
\* deletion is issued and the row keeps its url and key.
C13_GalleryUpdateDeletesOldObjectFirst ==
    \A p \in Procs :
        GalleryPutRuns(p) =>
            LET g == req[p].gal
                old == loc[p].existing
                row == FindImage(req[p].id)
            IN  IF HasReplacement(g)
                THEN /\ old.publicId # NullStr =>
                           /\ loc[p].fileKeysToDelete = <<old.publicId>>
                           /\ pc[p] = "galPutDeleteFiles" =>
                                 row = old /\ loc[p].deleteOutcome = "none"
                           /\ pc[p] \in {"galPutUpdate", "done"} =>
                                 loc[p].deleteOutcome \in StorageOutcomes
                     /\ pc[p] = "done" =>
                           /\ resp[p].status = 200
                           /\ row.url = g.url
                           /\ row.publicId = g.publicId
                ELSE /\ loc[p].fileKeysToDelete = <<>>
                     /\ loc[p].deleteOutcome = "none"
                     /\ storage = loc[p].pre.storage
                     /\ row.url = old.url
                     /\ row.publicId = old.publicId
                     /\ pc[p] = "done" => resp[p].status = 200

\* the file of a gallery item replaced although the deletion of the old object threw
C13_Witness ==
    \E p \in Procs :
        /\ Done(p, "galleryPUT")
        /\ resp[p].status = 200
        /\ loc[p].existing.publicId = Key_k1
        /\ loc[p].deleteOutcome = "throws"
        /\ Key_k1 \in storage
        /\ FindImage(req[p].id).url = Url_g2
        /\ FindImage(req[p].id).publicId = Key_k2

\* C14: a gallery Delete that found its row attempts the storage deletion of
\* the row's key while the row is still there, then deletes the row whatever
\* the outcome: the request ends with the row absent and a success response.
C14_GalleryDeleteRemovesRowWhateverStorageDoes ==
    \A p \in Procs :
        (req[p].op = "galleryDELETE" /\ loc[p].existing # NoRow) =>
            LET image == loc[p].existing
            IN  /\ image.publicId # NullStr =>
                      /\ loc[p].fileKeysToDelete = <<image.publicId>>
                      /\ pc[p] = "galDeleteFiles" =>
                            /\ FindImage(req[p].id) = image
                            /\ loc[p].deleteOutcome = "none"
                      /\ pc[p] \in {"galDeleteRow", "done"} =>
                            loc[p].deleteOutcome \in StorageOutcomes
                /\ pc[p] = "galDeleteRow" => FindImage(req[p].id) = image
                /\ pc[p] = "done" =>
                      /\ FindImage(req[p].id) = NoRow
                      /\ resp[p].status = 200
                      /\ resp[p].body = "success"

\* a gallery item deleted although the storage reported that the deletion failed
C14_Witness ==
    \E p \in Procs :
        /\ Done(p, "galleryDELETE")
        /\ loc[p].deleteOutcome = "failed"
        /\ loc[p].existing.publicId \in storage
        /\ FindImage(req[p].id) = NoRow
        /\ resp[p].status = 200

\* the request carries neither a file nor both a url and a storage key
CarriesNoFile(g) ==
    IF g.kind = "json" THEN g.url = NullStr \/ g.publicId = NullStr
    ELSE g.file = "none"

\* C15: a gallery Create whose request carries neither a file nor both a url
\* and a storage key is rejected (status 400 for a JSON or form body), creates
\* no gallery row and issues no upload.
C15_CreateWithoutFileIsRejected ==
    \A p \in Procs :
        (req[p].op = "galleryPOST" /\ CarriesNoFile(req[p].gal)) =>
            /\ pc[p] = "done"
            /\ resp[p].status \in {400, 500}
            /\ req[p].gal.kind \in {"json", "form"} => resp[p].status = 400
            /\ resp[p].body = "error"
            /\ images = loc[p].pre.images
            /\ storage = loc[p].pre.storage
            /\ loc[p].uploadOutcome = "none"

\* a JSON request with a url and a valid category but no storage key
C15_Witness ==
    \E p \in Procs :
        /\ Done(p, "galleryPOST")
        /\ req[p].gal.kind = "json"
        /\ req[p].gal.url = Url_g1
        /\ req[p].gal.publicId = NullStr
        /\ req[p].gal.category = Label_Lobby
        /\ resp[p].status = 400

\* the upload step of a multipart gallery Create has failed
UploadFailed(p) ==
    /\ req[p].op = "galleryPOST"
    /\ loc[p].uploadOutcome \in {"error", "throws", "rejected"}

\* C16: when the upload step of a multipart gallery Create fails (the storage
\* answers with an error, the call throws, or the upload route rejects the
\* file), the Create ends with status 500 and no gallery row is written.
C16_FailedUploadFailsCreate ==
    \A p \in Procs :
        UploadFailed(p) =>
            /\ pc[p] = "done"
            /\ resp[p].status = 500
            /\ resp[p].body = "error"
            /\ images = loc[p].pre.images
            /\ loc[p].uploadResult.public_id = NullStr

\* an image whose upload the storage answered with an error
C16_Witness ==
    \E p \in Procs :
        /\ Done(p, "galleryPOST")
        /\ req[p].gal.file = "image"
        /\ req[p].gal.category = Label_Lobby
        /\ loc[p].uploadOutcome = "error"
        /\ resp[p].status = 500
        /\ images = loc[p].pre.images

\* the body of the response an operation gives when its storage deletion succeeds
SuccessBody(op) ==
    CASE op = "roomsPUT" -> "room"
      [] op = "roomsDELETE" -> "message"
      [] OTHER -> "success"

\* the operations whose handler awaits the storage deletion inside a try block
CatchesStorageFailure == {"roomsPUT", "roomsDELETE", "galleryPUT", "galleryDELETE"}

\* the storage deletion of the request in slot p has returned with an outcome
DeletionReturned(p) == loc[p].deleteOutcome \in StorageOutcomes

\* C17 as stated: in every operation that issues a storage deletion, the upload
\* route's DELETE included, the response is the one given when the deletion
\* succeeds, whatever the outcome of the deletion.
C17_StorageDeleteFailureNeverFailsRequest ==
    \A p \in Procs :
        (pc[p] = "done" /\ DeletionReturned(p)) =>
            /\ resp[p].status = 200
            /\ resp[p].body = SuccessBody(req[p].op)

\* C17 as amended: in category Update, category Delete, gallery Update and
\* gallery Delete the response is the one given when the storage deletion
\* succeeds, whatever its outcome (the categories/[id] Delete answers before
\* the call returns, and its later outcome changes no response); the upload
\* route's DELETE answers 500 when the storage call throws and gives the
\* success response when the call returns, a reported failure included.
C17_StorageDeleteFailureFailsOnlyUploadDelete ==
    /\ [](\A p \in Procs :
            /\ (pc[p] = "done" /\ DeletionReturned(p)
                   /\ req[p].op \in CatchesStorageFailure) =>
                  /\ resp[p].status = 200
                  /\ resp[p].body = SuccessBody(req[p].op)
            /\ (Done(p, "categoryDELETE") /\ loc[p].fileKeysToDelete # <<>>) =>
                  /\ loc[p].deleteOutcome = "none"
                  /\ resp[p].status = 200
                  /\ resp[p].body = "success"
            /\ (Done(p, "uploadDELETE") /\ DeletionReturned(p)) =>
                  IF loc[p].deleteOutcome = "throws"
                  THEN resp[p].status = 500 /\ resp[p].body = "error"
                  ELSE resp[p].status = 200 /\ resp[p].body = "success")
    /\ [][DetachedCompletes => resp' = resp]_vars

\* a category Update answered with the updated room although the deletion of
\* the dropped image's object threw
C17_Witness ==
    \E p \in Procs :
        /\ Done(p, "roomsPUT")
        /\ loc[p].fileKeysToDelete # <<>>
        /\ loc[p].deleteOutcome = "throws"
        /\ Range(loc[p].fileKeysToDelete) \subseteq storage
        /\ resp[p].status = 200
        /\ resp[p].body = "room"

\* the request in slot p comes with a session, reaches the validation of its
\* payload, and the payload fails it
FailsValidation(p) ==
    /\ RequireAdminPasses(req[p].auth)
    /\ \/ /\ req[p].op = "categoryPUT"
          /\ CleanCategoryData(req[p].data) # <<>>
          /\ ~CategoryDataValid(CleanCategoryData(req[p].data))
       \/ /\ req[p].op = "galleryPOST"
          /\ req[p].gal.kind \in {"json", "form"}
          /\ ~GalleryDataValid(req[p].gal)
       \/ /\ req[p].op = "galleryPUT"
          /\ loc[p].existing # NoRow
          /\ ~GalleryDataValid(req[p].gal)

\* the store and the storage are as they were when the request in slot p arrived
NothingWritten(p) ==
    /\ categories = loc[p].pre.categories
    /\ images = loc[p].pre.images
    /\ prices = loc[p].pre.prices
    /\ storage = loc[p].pre.storage

\* C18: an admin request whose payload fails the validation (category update
\* fields, gallery item fields) is answered with status 400, and has written
\* nothing to the database and called the storage for nothing.
C18_ValidationFailureIs400 ==
    \A p \in Procs :
        (pc[p] = "done" /\ FailsValidation(p)) =>
            /\ resp[p].status = 400
            /\ NothingWritten(p)
            /\ loc[p].deleteOutcome = "none"
            /\ loc[p].uploadOutcome = "none"

\* the operations addressed to a category id and those addressed to a gallery id
CategoryOps == {"roomsPUT", "roomsDELETE", "categoryGET", "categoryPUT", "categoryDELETE"}
GalleryOps == {"galleryPUT", "galleryDELETE"}

\* the request in slot p passes the session and validation checks of its
\* handler and is addressed to an id that had no row when it arrived
AddressesMissingRow(p) ==
    /\ req[p].op \in {"roomsPUT", "roomsDELETE"} \/ RequireAdminPasses(req[p].auth)
    /\ ~FailsValidation(p)
    /\ \/ /\ req[p].op \in CategoryOps
          /\ req[p].id # NullId
          /\ ~\E c \in loc[p].pre.categories : c.id = req[p].id
       \/ /\ req[p].op \in GalleryOps
          /\ ~\E i \in loc[p].pre.images : i.id = req[p].id

\* C19: every admin operation addressed to an id that has no row (category
\* get, update and delete, price replacement, gallery update and delete) is
\* answered with status 404, and has written nothing to the database and
\* called the storage for nothing.
C19_MissingIdIs404 ==
    \A p \in Procs :
        (pc[p] = "done" /\ AddressesMissingRow(p)) =>
            /\ resp[p].status = 404
            /\ NothingWritten(p)
            /\ loc[p].deleteOutcome = "none"

\* the keys of the JSON body of the response in slot p
BodyKeys(p) == ResponseKeys(req[p].op, resp[p].body)

\* the response in slot p reports success
IsSuccess(p) == resp[p].status \in 200..299

TouchesOnlyPrices(p) ==
    /\ req[p].op = "categoryPUT"
    /\ req[p].hasPrices
    /\ \A f \in DOMAIN req[p].data : req[p].data[f] \in EmptyFields

\* C23: a category update for an existing category whose body touches only
\* prices passes the validation step (no 500 from the category schema), ends
\* with status 200 and the category's price rows replaced by the first four
\* submitted tiers, and leaves the category row and its image rows as they were.
C23_PriceOnlyUpdateLeavesCategoryAlone ==
    \A p \in Procs :
        (TouchesOnlyPrices(p) /\ \E c \in loc[p].pre.categories : c.id = req[p].id) =>
            /\ pc[p] # "idle"
            /\ loc[p].validatedCategoryData = <<>>
            /\ FindCategory(req[p].id) \in loc[p].pre.categories
            /\ ImagesOf(req[p].id) = ImagesBefore(p)
            /\ pc[p] = "done" =>
                  LET rows == ById(PricesOf(req[p].id))
                      tiers == LimitedPrices(req[p].prices)
                  IN  /\ resp[p].status = 200
                      /\ Len(rows) = Len(tiers)
                      /\ \A i \in 1..Len(rows) : TierOf(rows[i]) = tiers[i]
                      /\ PricesOf(req[p].id) \cap loc[p].pre.prices = {}

\* title an empty string and roomCount an empty object, two tiers replacing
\* the five stored before, for a category with an image row
C23_Witness ==
    \E p \in Procs :
        /\ Done(p, "categoryPUT")
        /\ req[p].data = [title |-> StrField(<<>>), roomCount |-> EmptyObject]
        /\ Len(req[p].prices) = 2
        /\ Cardinality(PricesBefore(p)) = 4
        /\ Cardinality(PricesOf(req[p].id)) = 2
        /\ ImagesOf(req[p].id) # {}
        /\ FindCategory(req[p].id).title = Title_Deluxe
        /\ resp[p].status = 200

\* the rows of a snapshot that category c does not own, and the other categories
ImagesOutside(rows, c) == {i \in rows : i.categoryId # c}
PricesOutside(rows, c) == {q \in rows : q.categoryId # c}
CategoriesOutside(rows, c) == {r \in rows : r.id # c}

\* C24: at every step of a category Update or a category Delete on category c
\* (either Delete route), the standalone gallery items, the image and price
\* rows owned by other categories and the other category rows are as they were
\* when the request arrived; during an Update the price rows of c are too.
C24_UpdateAndDeleteTouchOnlyTheirCategory ==
    \A p \in Procs :
        req[p].op \in {"roomsPUT", "roomsDELETE", "categoryDELETE"} =>
            LET c == req[p].id
            IN  /\ ImagesOutside(images, c) = ImagesOutside(loc[p].pre.images, c)
                /\ PricesOutside(prices, c) = PricesOutside(loc[p].pre.prices, c)
                /\ CategoriesOutside(categories, c)
                      = CategoriesOutside(loc[p].pre.categories, c)
                /\ req[p].op = "roomsPUT" => PricesOf(c) = PricesBefore(p)

\* a category with image and price rows deleted beside a standalone gallery
\* item and another category that has an image row and a price row
C24_Witness ==
    \E p \in Procs :
        /\ Done(p, "roomsDELETE")
        /\ resp[p].status = 200
        /\ ImagesBefore(p) # {}
        /\ PricesBefore(p) # {}
        /\ ImagesOf(req[p].id) = {}
        /\ \E i \in images : i.categoryId = NullId
        /\ \E d \in categories : ImagesOf(d.id) # {} /\ PricesOf(d.id) # {}

\* a step of the price replacement in slot p fails: the update finds no row,
\* or createMany is given a row it rejects or a category that does not exist
ReplacementStepFails(p) ==
    /\ req[p].op = "categoryPUT"
    /\ RequireAdminPasses(req[p].auth)
    /\ ~FailsValidation(p)
    /\ LET limitedPrices == LimitedPrices(req[p].prices)
           missing == ~\E c \in loc[p].pre.categories : c.id = req[p].id
       IN  \/ missing /\ CleanCategoryData(req[p].data) # <<>>
           \/ /\ req[p].hasPrices
              /\ limitedPrices # <<>>
              /\ missing \/ \E i \in 1..Len(limitedPrices) :
                                ~TierComplete(limitedPrices[i])

\* C25: a price replacement one of whose steps fails ends with an error
\* response, and a price replacement that ends with an error response leaves
\* the category rows and the price rows exactly as they were when the request
\* arrived; until it commits, a replacement changes no row.
C25_PriceReplacementIsAllOrNothing ==
    \A p \in Procs :
        req[p].op = "categoryPUT" =>
            /\ (pc[p] = "done" /\ ReplacementStepFails(p)) =>
                  resp[p].status = 500 /\ resp[p].body = "error"
            /\ (pc[p] # "done" \/ resp[p].status # 200) =>
                  /\ categories = loc[p].pre.categories
                  /\ prices = loc[p].pre.prices

\* a replacement that changed roomCount and deleted two price rows inside the
\* transaction before createMany threw: the row and both price rows are there
C25_Witness ==
    \E p \in Procs :
        /\ Done(p, "categoryPUT")
        /\ resp[p].status = 500
        /\ req[p].data = [roomCount |-> NumField(7)]
        /\ req[p].prices = SubSeq(TierBase, 3, 3) \o <<Tier_incomplete>>
        /\ Cardinality(PricesBefore(p)) = 2
        /\ PricesOf(req[p].id) = PricesBefore(p)
        /\ FindCategory(req[p].id) # NoRow
        /\ FindCategory(req[p].id).roomCount = 5

\* C26: when a category Update ends with an error response, the image rows of
\* the category are the ones it had when the request arrived.
C26_FailedUpdateKeepsImageRows ==
    \A p \in Procs :
        (Done(p, "roomsPUT") /\ ~IsSuccess(p)) => ImagesOf(req[p].id) = ImagesBefore(p)

\* the category of the Update in slot w holds what that request submitted: its
\* fields, and one image row per submitted image, with its url and key
HoldsSubmission(w) ==
    LET c == req[w].id
        rows == ById(ImagesOf(c))
    IN  /\ FindCategory(c).title = req[w].title
        /\ FindCategory(c).roomCount = req[w].roomCount
        /\ Len(rows) = Len(req[w].images)
        /\ \A i \in 1..Len(rows) :
              /\ rows[i].url = req[w].images[i].url
              /\ rows[i].publicId = req[w].images[i].publicId

\* C27: when two category Updates for the same category have both answered
\* success, the category holds the fields and exactly the image rows of one of
\* the two requests.
C27_ConcurrentUpdatesLeaveOneSubmission ==
    \A p, q \in Procs :
        (/\ p # q
         /\ Done(p, "roomsPUT") /\ Done(q, "roomsPUT")
         /\ req[p].id = req[q].id
         /\ IsSuccess(p) /\ IsSuccess(q)) =>
            HoldsSubmission(p) \/ HoldsSubmission(q)

\* the storage keys an Update passed to utapi.deleteFiles, and the keys held by
\* the rows it wrote
KeysAskedToDelete(p) ==
    IF loc[p].deleteOutcome = "none" THEN {}
    ELSE {loc[p].fileKeysToDelete[i] : i \in 1..Len(loc[p].fileKeysToDelete)}
KeysWritten(p) ==
    IF req[p].op = "galleryPUT"
    THEN IF FindImage(req[p].id) = NoRow THEN {} ELSE {FindImage(req[p].id).publicId}
    ELSE KeysOf(ImagesOf(req[p].id))

\* C28: when a category Update or a gallery Update has answered success, no
\* storage key that the request passed to the storage deletion is held by a row
\* the request wrote.
C28_NoWrittenRowReferencesDeletedKey ==
    \A p \in Procs :
        ((Done(p, "roomsPUT") \/ Done(p, "galleryPUT")) /\ IsSuccess(p)) =>
            KeysAskedToDelete(p) \cap KeysWritten(p) = {}

\* fetchWithTimeout has returned or thrown; apiClient has returned
Completed == fnPc \in {"returned", "threw", "resolved"}
Resolved == fnPc = "resolved"
TimedOut == fnOut.lastError = "AbortError" /\ fnOut.response = ResponseNone

\* C21: apiClient's promise is never rejected: whatever fetch does, it resolves
\* to { success: true, data } or to { success: false, error }; the error is
\* 'Request timeout. Please try again.' exactly when the call was aborted by its
\* timer.
C21_ApiClientAlwaysResolves ==
    /\ fnOut.result.settled # "rejected"
    /\ (fnOut.result.settled = "pending") = ~Resolved
    /\ Resolved =>
          /\ \/ /\ fnOut.result.success
                /\ fnOut.result.data # "none"
                /\ fnOut.result.error = "none"
             \/ /\ ~fnOut.result.success
                /\ fnOut.result.error # "none"
                /\ fnOut.result.data = "none"
          /\ fnOut.result.success = (fnOut.response.ok /\ ~ApiClientTry(fnOut.response).thrown)
          /\ (fnOut.result.error = TimeoutError) = TimedOut
C21_Witness ==
    /\ Resolved
    /\ TimedOut
    /\ fnOut.result = Failure(TimeoutError)

\* C22: fetchWithTimeout called with retries = N issues at most N + 1 fetches;
\* no fetch is issued after one was rejected with an AbortError or after the
\* (N + 1)-th was rejected; the response it returns is that of the first fetch
\* that fulfilled; and every call ends by returning or throwing.
AttemptsSafe ==
    LET log == fnOut.log
    IN  /\ Len(log) <= fnIn.retries + 1
        /\ \A i \in 1..(Len(log) - 1) : log[i] \in Rejections
        /\ fnPc = "fetching" => Len(log) = fnOut.attempt /\ fnOut.attempt <= fnIn.retries
        /\ fnPc = "returned" => log[Len(log)] = "fulfilled" /\ fnOut.response \in Responses
        /\ fnPc = "threw" =>
              /\ log[Len(log)] # "fulfilled"
              /\ log[Len(log)] = "AbortError" \/ Len(log) = fnIn.retries + 1
              /\ fnOut.lastError = LastError(log[Len(log)])
C22_AtMostRetriesPlusOneAttempts == []AttemptsSafe /\ <>Completed
C22_Witness ==
    /\ fnPc = "returned"
    /\ fnIn.retries = MaxRetries
    /\ Len(fnOut.log) = MaxRetries + 1

\* C29: one abort timer serves the whole call: it is armed once, stays armed
\* through every attempt and delay, and is cleared on every exit path, so that
\* it never fires after the call has completed; once it has fired no later
\* attempt fulfils.
TimerSafe ==
    /\ fnOut.armed <= 1
    /\ fnPc \in {"fetching", "delay"} => fnOut.armed = 1 /\ fnOut.timer \in {"armed", "fired"}
    /\ Completed => fnOut.timer \in {"cleared", "fired"} /\ fnOut.cleared = 1
    /\ ~fnOut.lateAbort
NoSuccessAfterAbort ==
    (fnOut.timer = "fired" /\ ~Completed) => (fnPc' # "returned")
C29_OneTimerForTheWholeCall == []TimerSafe /\ [][NoSuccessAfterAbort]_vars
C29_Witness ==
    /\ fnPc = "threw"
    /\ fnOut.timer = "fired"
    /\ Len(fnOut.log) >= 2

\* the file in hand passed the widget's type, size and duration checks
PassedChecks ==
    LET file == fnOut.file
    IN  /\ Accepted(file, fnIn.fileType)
        /\ file.kind = "image" => file.size <= ImageLimit
        /\ file.kind = "video" =>
              /\ file.size <= VideoLimit
              /\ file.metadata = "loads"
              /\ file.duration <= DurationLimit
UploadStarted == fnPc = "startUpload"
UploadEnded == fnPc = "idle" /\ fnOut.ends = fnOut.starts /\ ~fnOut.uploading

\* C30: onUploadStart is called only for a file that passed the type, size and
\* duration checks, and every onUploadStart is eventually followed by exactly
\* one onUploadEnd with the uploading flag reset to false, whatever the outcome
\* of the upload.
C30_EveryUploadStartIsEnded ==
    /\ [](UploadStarted => PassedChecks)
    /\ [](fnOut.ends <= fnOut.starts)
    /\ UploadStarted ~> UploadEnded

====
